---- MODULE Spec2Model ----
(***************************************************************************)
(* A model of the table store of excel_progress: DataManager               *)
(* (core/data_manager.py), its TableHistory (core/table_history.py), the   *)
(* cell addressing of CellOperations (core/cell_operations.py) and the     *)
(* tool catalog of ExcelAgent (core/excel_agent.py).                       *)
(*                                                                         *)
(* Python objects are modelled by value.  The one place where object       *)
(* identity matters is a snapshot whose "data" DataFrame is the very       *)
(* object stored in DataManager.tables (TableHistory.undo / redo return    *)
(* the stored object, DataManager installs it without copying): such a     *)
(* snapshot entry carries shared = TRUE, and every in-place mutation of    *)
(* the stored table is applied to it as well.                              *)
(***************************************************************************)
EXTENDS Integers, Sequences, FiniteSets, TLC

(***************************************************************************)
(* Bounds of the model.                                                    *)
(***************************************************************************)
MaxSteps == 3        \* operations per behaviour of Spec
MaxUndoSteps == 6    \* operations per behaviour of SpecUndo
MaxCapOver == 1      \* SpecCap stops once an undo stack exceeds its cap by this much
MaxCapRedo == 1      \* longest redo stack of SpecCap
MaxCapSnapshots == 1 \* explicit save_snapshot calls per behaviour of SpecCap
MaxCapLog == 2       \* logged operations (load, save) per behaviour of SpecCap
MaxActiveSteps == 4  \* operations per behaviour of SpecActive
MaxHeaderSteps == 3  \* operations per behaviour of SpecHeader
MaxRangeSteps == 4   \* operations per behaviour of SpecRange
MaxRefLen == 3       \* longest cell reference text of SpecRef
MaxRefRow == 10      \* largest row index of SpecRef
MaxRefCol == 702     \* largest column index of SpecRef (702 is AAA)
MaxRangeEndLen == 2  \* longest endpoint text of the ranges of SpecRef
MaxCatalogSteps == 3 \* operations per behaviour of SpecCatalog
MaxFillSteps == 3    \* operations per behaviour of SpecFill
MaxCalcSteps == 3    \* operations per behaviour of SpecCalc
MaxEditSteps == 5    \* operations per behaviour of SpecEdit
MaxStoreSteps == 4   \* operations per behaviour of SpecStore
MaxInvokes == 1      \* ExcelAgent.invoke calls per behaviour of SpecAgent
MaxToolCalls == 2    \* tool calls per stream of the workflow in SpecAgent
MaxAppend == 5       \* operations per behaviour of SpecLog
MaxLimit == 3        \* largest TableHistory(limit=...) of SpecLog

(***************************************************************************)
(* Program constants.                                                      *)
(***************************************************************************)
HistoryLimit == 50
SnapshotCap == 10

None == "None"

(***************************************************************************)
(* Cell values and column labels.  A scalar is a string, a number or the   *)
(* missing value NaN.                                                      *)
(***************************************************************************)
Str(s) == [k |-> "str", s |-> s, n |-> 0, d |-> 0]
\* the number n / d, in lowest terms with d > 0
Num(i) == [k |-> "num", s |-> "", n |-> i, d |-> 1]
\* float infinity, n its sign
Inf(sign) == [k |-> "inf", s |-> "", n |-> sign, d |-> 0]
NaN == [k |-> "nan", s |-> "", n |-> 0, d |-> 0]
\* an optional scalar argument that was not given (Python None)
NoValue == [k |-> "none", s |-> "", n |-> 0, d |-> 0]

\* the strings of the model in Python's string order
StrOrder == <<"", " ", "0", "1", "2", "a", "b", "c", "column_0", "column_1", "column_2", "column_3",
              "column_4", "k", "x", "y">>
StrRank(s) == CHOOSE i \in 1..Len(StrOrder) : StrOrder[i] = s
\* a < b; comparing a string with a number raises TypeError
IsNumber(v) == v.k \in {"num", "inf"}
Comparable(a, b) == (IsNumber(a) /\ IsNumber(b)) \/ (a.k = "str" /\ b.k = "str")
Less(a, b) ==
    IF a.k = "str" THEN StrRank(a.s) < StrRank(b.s)
    ELSE IF a.k = "inf" THEN a.n < 0 /\ ~(b.k = "inf" /\ b.n < 0)
    ELSE IF b.k = "inf" THEN b.n > 0
    ELSE a.n * b.d < b.n * a.d

IsNa(v) == v.k = "nan"

Min(a, b) == IF a < b THEN a ELSE b

(***************************************************************************)
(* Python dicts: a function whose DOMAIN is the key set.                   *)
(***************************************************************************)
Put(f, key, val) == [x \in (DOMAIN f) \cup {key} |-> IF x = key THEN val ELSE f[x]]
Del(f, key) == [x \in (DOMAIN f) \ {key} |-> f[x]]
EmptyDict == [x \in {} |-> 0]

\* insertion order of the keys of DataManager.tables
AppendKey(keys, key) ==
    IF \E i \in 1..Len(keys) : keys[i] = key THEN keys ELSE Append(keys, key)
RemoveKey(keys, key) == SelectSeq(keys, LAMBDA x : x # key)

(***************************************************************************)
(* DataFrames: ordered column labels and rows of scalars.                  *)
(***************************************************************************)
DF(cols, rows) == [columns |-> cols, rows |-> rows]
NRows(df) == Len(df.rows)
NCols(df) == Len(df.columns)
HasColumn(df, c) == \E i \in 1..NCols(df) : df.columns[i] = c
ColIndex(df, c) == CHOOSE i \in 1..NCols(df) : df.columns[i] = c

\* df.iloc[row, col] = value, row and col zero-based and in bounds
IlocSet(df, row, col, v) ==
    [df EXCEPT !.rows[row + 1][col + 1] = v]

(***************************************************************************)
(* CellOperations                                                          *)
(***************************************************************************)
Alphabet == <<"A","B","C","D","E","F","G","H","I","J","K","L","M",
              "N","O","P","Q","R","S","T","U","V","W","X","Y","Z">>
LowerAlphabet == <<"a","b","c","d","e","f","g","h","i","j","k","l","m",
                   "n","o","p","q","r","s","t","u","v","w","x","y","z">>
DigitChars == <<"0","1","2","3","4","5","6","7","8","9">>

IsUpperChar(c) == \E i \in 1..26 : Alphabet[i] = c
IsLowerChar(c) == \E i \in 1..26 : LowerAlphabet[i] = c
IsDigitChar(c) == \E i \in 1..10 : DigitChars[i] = c
\* str.upper() on one character
UpperChar(c) ==
    IF IsLowerChar(c) THEN Alphabet[CHOOSE i \in 1..26 : LowerAlphabet[i] = c] ELSE c
Upper(s) == [i \in 1..Len(s) |-> UpperChar(s[i])]
\* ord(c) - ord('A') + 1
LetterValue(c) == CHOOSE i \in 1..26 : Alphabet[i] = c
DigitValue(c) == (CHOOSE i \in 1..10 : DigitChars[i] = c) - 1


RECURSIVE ColumnNumber(_)
\* sum of (ord(c) - ord('A') + 1) * 26 ** i over the reversed letters
ColumnNumber(letters) ==
    IF Len(letters) = 0 THEN 0
    ELSE LetterValue(letters[Len(letters)])
         + 26 * ColumnNumber(SubSeq(letters, 1, Len(letters) - 1))

RECURSIVE IntOfDigits(_)
\* int(row_str)
IntOfDigits(digits) ==
    IF Len(digits) = 0 THEN 0
    ELSE DigitValue(digits[Len(digits)])
         + 10 * IntOfDigits(SubSeq(digits, 1, Len(digits) - 1))

\* the text $ matches up to: the whole string, or the string without the
\* newline at its end
MatchedText(s) ==
    IF Len(s) > 0 /\ s[Len(s)] = "\n" THEN SubSeq(s, 1, Len(s) - 1) ELSE s

\* re.match(r'^([A-Z]+)(\d+)$', s): the length of the letter group, 0 when
\* there is no match.  A reference is a sequence of one-character strings.
MatchSplit(s) ==
    LET t == MatchedText(s)
    IN IF \E k \in 1..(Len(t) - 1) :
             /\ \A i \in 1..k : IsUpperChar(t[i])
             /\ \A i \in (k + 1)..Len(t) : IsDigitChar(t[i])
       THEN CHOOSE k \in 1..(Len(t) - 1) :
             /\ \A i \in 1..k : IsUpperChar(t[i])
             /\ \A i \in (k + 1)..Len(t) : IsDigitChar(t[i])
       ELSE 0

NoCell == [ok |-> FALSE, row |-> 0, col |-> 0]

\* parse_cell_reference without col -= 1
parse_cell_reference_one_based_col(cell_ref) ==
    IF Len(cell_ref) = 0 THEN NoCell
    ELSE LET u == Upper(cell_ref)
             k == MatchSplit(u)
             t == MatchedText(u)
         IN IF k = 0 THEN NoCell
            ELSE [ok |-> TRUE,
                  row |-> IntOfDigits(SubSeq(t, k + 1, Len(t))) - 1,
                  col |-> ColumnNumber(SubSeq(t, 1, k))]

parse_cell_reference(cell_ref) ==
    IF Len(cell_ref) = 0 THEN NoCell
    ELSE LET u == Upper(cell_ref)
             k == MatchSplit(u)
             t == MatchedText(u)
         IN IF k = 0 THEN NoCell
            ELSE [ok |-> TRUE,
                  row |-> IntOfDigits(SubSeq(t, k + 1, Len(t))) - 1,
                  col |-> ColumnNumber(SubSeq(t, 1, k)) - 1]

\* the positions of ':' in a range reference
Colons(range_ref) == {i \in 1..Len(range_ref) : range_ref[i] = ":"}

NoRange == [ok |-> FALSE, start_row |-> 0, start_col |-> 0, end_row |-> 0, end_col |-> 0]

parse_range(range_ref) ==
    IF Len(range_ref) = 0 \/ Colons(range_ref) = {} THEN NoRange
    ELSE IF Cardinality(Colons(range_ref)) # 1 THEN NoRange
    ELSE LET at == CHOOSE i \in Colons(range_ref) : TRUE
             start == parse_cell_reference(SubSeq(range_ref, 1, at - 1))
             end == parse_cell_reference(SubSeq(range_ref, at + 1, Len(range_ref)))
         IN IF ~start.ok \/ ~end.ok THEN NoRange
            ELSE [ok |-> TRUE, start_row |-> start.row, start_col |-> start.col,
                  end_row |-> end.row, end_col |-> end.col]

RECURSIVE ColumnLetters(_)
\* the while loop of cell_to_excel on temp_col
ColumnLetters(temp_col) ==
    IF temp_col <= 0 THEN <<>>
    ELSE ColumnLetters((temp_col - 1) \div 26)
         \o <<Alphabet[((temp_col - 1) % 26) + 1]>>

RECURSIVE DigitsOfNat(_)
DigitsOfNat(n) ==
    IF n < 10 THEN <<DigitChars[n + 1]>>
    ELSE DigitsOfNat(n \div 10) \o <<DigitChars[(n % 10) + 1]>>

\* str(n)
DigitsOfInt(n) == IF n < 0 THEN <<"-">> \o DigitsOfNat(-n) ELSE DigitsOfNat(n)

\* cell_to_excel writing the zero-based row
cell_to_excel_zero_based_row(row, col) == ColumnLetters(col + 1) \o DigitsOfInt(row)

cell_to_excel(row, col) == ColumnLetters(col + 1) \o DigitsOfInt(row + 1)

validate_cell_position(row, col, max_rows, max_cols) ==
    0 <= row /\ row < max_rows /\ 0 <= col /\ col < max_cols

validate_range(start_row, start_col, end_row, end_col, max_rows, max_cols) ==
    IF ~(0 <= start_row /\ start_row < max_rows /\ 0 <= start_col /\ start_col < max_cols)
    THEN FALSE
    ELSE IF ~(0 <= end_row /\ end_row < max_rows /\ 0 <= end_col /\ end_col < max_cols)
    THEN FALSE
    ELSE IF start_row > end_row \/ start_col > end_col THEN FALSE
    ELSE TRUE

(***************************************************************************)
(* TableHistory.  A value h has the fields of the object: history (the     *)
(* operation log), limit, _snapshot_cache and _redo_stack (both dicts from *)
(* table name to a list of snapshot entries).  _undo_stack is never used.  *)
(***************************************************************************)
NewTableHistory(limit) ==
    [history |-> <<>>, limit |-> limit,
     snapshot_cache |-> EmptyDict, redo_stack |-> EmptyDict]

Record(operation_type, table_name, now) ==
    [operation_type |-> operation_type, table_name |-> table_name, timestamp |-> now]

\* add_operation evicting the newest record (pop() for pop(0))
add_operation_pops_newest(h, operation_type, table_name, now) ==
    LET appended == Append(h.history, Record(operation_type, table_name, now))
        kept == IF Len(appended) > h.limit
                THEN SubSeq(appended, 1, Len(appended) - 1) ELSE appended
    IN [h EXCEPT !.history = kept, !.redo_stack = EmptyDict]

add_operation(h, operation_type, table_name, now) ==
    LET appended == Append(h.history, Record(operation_type, table_name, now))
        kept == IF Len(appended) > h.limit THEN Tail(appended) ELSE appended
    IN [h EXCEPT !.history = kept, !.redo_stack = EmptyDict]

\* the entry save_snapshot appends: a deep copy, so not the stored object
Snapshot(table_data) == [data |-> table_data, shared |-> FALSE]

StackOf(dict, table_name) ==
    IF table_name \in DOMAIN dict THEN dict[table_name] ELSE <<>>

hist_save_snapshot(h, table_name, table_data) ==
    LET pushed == Append(StackOf(h.snapshot_cache, table_name), Snapshot(table_data))
        kept == IF Len(pushed) > SnapshotCap THEN Tail(pushed) ELSE pushed
    IN [h EXCEPT !.snapshot_cache = Put(h.snapshot_cache, table_name, kept)]

hist_can_undo(h, table_name) ==
    IF table_name \notin DOMAIN h.snapshot_cache THEN FALSE
    ELSE Len(h.snapshot_cache[table_name]) > 1

hist_can_redo(h, table_name) ==
    table_name \in DOMAIN h.redo_stack /\ Len(h.redo_stack[table_name]) > 0

Front(s) == SubSeq(s, 1, Len(s) - 1)
Last(s) == s[Len(s)]

\* undo returning the data of the entry it popped
hist_undo_returns_popped(h, table_name) ==
    IF ~hist_can_undo(h, table_name) THEN [ok |-> FALSE, h |-> h, data |-> DF(<<>>, <<>>)]
    ELSE LET snapshots == h.snapshot_cache[table_name]
             current == Last(snapshots)
             rest == Front(snapshots)
             redo == Append(StackOf(h.redo_stack, table_name), current)
         IN [ok |-> TRUE,
             h |-> [h EXCEPT !.snapshot_cache = Put(h.snapshot_cache, table_name, rest),
                             !.redo_stack = Put(h.redo_stack, table_name, redo)],
             data |-> current.data]

\* TableHistory.undo: [ok, h, data]; data is snapshots[-1]["data"] itself
hist_undo(h, table_name) ==
    IF ~hist_can_undo(h, table_name) THEN [ok |-> FALSE, h |-> h, data |-> DF(<<>>, <<>>)]
    ELSE LET snapshots == h.snapshot_cache[table_name]
             current == Last(snapshots)
             rest == Front(snapshots)
             redo == Append(StackOf(h.redo_stack, table_name), current)
         IN [ok |-> TRUE,
             h |-> [h EXCEPT !.snapshot_cache = Put(h.snapshot_cache, table_name, rest),
                             !.redo_stack = Put(h.redo_stack, table_name, redo)],
             data |-> Last(rest).data]

\* redo returning the data below the entry it pushed back
hist_redo_returns_stale(h, table_name) ==
    IF ~hist_can_redo(h, table_name) THEN [ok |-> FALSE, h |-> h, data |-> DF(<<>>, <<>>)]
    ELSE LET redo_stack == h.redo_stack[table_name]
             snapshot == Last(redo_stack)
             below == StackOf(h.snapshot_cache, table_name)
             pushed == Append(below, snapshot)
         IN [ok |-> TRUE,
             h |-> [h EXCEPT !.redo_stack = Put(h.redo_stack, table_name, Front(redo_stack)),
                             !.snapshot_cache = Put(h.snapshot_cache, table_name, pushed)],
             data |-> IF Len(below) > 0 THEN Last(below).data ELSE snapshot.data]

\* TableHistory.redo: [ok, h, data]; data is snapshot["data"] itself
hist_redo(h, table_name) ==
    IF ~hist_can_redo(h, table_name) THEN [ok |-> FALSE, h |-> h, data |-> DF(<<>>, <<>>)]
    ELSE LET redo_stack == h.redo_stack[table_name]
             snapshot == Last(redo_stack)
             pushed == Append(StackOf(h.snapshot_cache, table_name), snapshot)
         IN [ok |-> TRUE,
             h |-> [h EXCEPT !.redo_stack = Put(h.redo_stack, table_name, Front(redo_stack)),
                             !.snapshot_cache = Put(h.snapshot_cache, table_name, pushed)],
             data |-> snapshot.data]

(***************************************************************************)
(* Object identity between DataManager.tables[name] and snapshot entries.  *)
(***************************************************************************)
MapStack(dict, table_name, F(_)) ==
    IF table_name \in DOMAIN dict
    THEN [dict EXCEPT ![table_name] = [i \in 1..Len(@) |-> F(@[i])]]
    ELSE dict

\* tables[name] was rebound to a new object (or deleted): nothing is shared
Unshare(h, table_name) ==
    LET F(e) == [e EXCEPT !.shared = FALSE]
    IN [h EXCEPT !.snapshot_cache = MapStack(h.snapshot_cache, table_name, F),
                 !.redo_stack = MapStack(h.redo_stack, table_name, F)]

\* tables[name] was rebound to the data of the top entry of the undo stack
ShareTop(h, table_name) ==
    LET u == Unshare(h, table_name)
        top == Len(u.snapshot_cache[table_name])
    IN [u EXCEPT !.snapshot_cache[table_name][top].shared = TRUE]

\* tables[name] was mutated in place and now has the value df
SyncShared(h, table_name, df) ==
    LET F(e) == IF e.shared THEN [e EXCEPT !.data = df] ELSE e
    IN [h EXCEPT !.snapshot_cache = MapStack(h.snapshot_cache, table_name, F),
                 !.redo_stack = MapStack(h.redo_stack, table_name, F)]

(***************************************************************************)
(* DataManager.  A value d has the fields of the object: tables (with      *)
(* order, the insertion order of its keys), table_metadata, active_table,  *)
(* history and last_saved_filename.  Of TableMetadata the model keeps      *)
(* columns, total_rows and header_row.  Every operation returns the new    *)
(* object and its return value.                                            *)
(***************************************************************************)
NewDataManager(limit) ==
    [tables |-> EmptyDict, order |-> <<>>, table_metadata |-> EmptyDict,
     active_table |-> None, history |-> NewTableHistory(limit),
     last_saved_filename |-> None]

Result(d, ret) == [d |-> d, ret |-> ret]

TableMetadata(df, header_row) ==
    [columns |-> df.columns, total_rows |-> NRows(df), header_row |-> header_row]

\* _update_table_metadata refreshing only the metadata that already exists
update_table_metadata_existing_only(d, table_name) ==
    IF table_name \notin DOMAIN d.tables \/ table_name \notin DOMAIN d.table_metadata
    THEN d
    ELSE [d EXCEPT !.table_metadata =
             Put(@, table_name,
                 TableMetadata(d.tables[table_name],
                               d.table_metadata[table_name].header_row))]

update_table_metadata(d, table_name) ==
    IF table_name \notin DOMAIN d.tables THEN d
    ELSE LET header_row == IF table_name \in DOMAIN d.table_metadata
                           THEN d.table_metadata[table_name].header_row ELSE 0
         IN [d EXCEPT !.table_metadata =
                 Put(@, table_name, TableMetadata(d.tables[table_name], header_row))]

\* self.tables[table_name] = df, df an object no snapshot entry holds
Rebind(d, table_name, df) ==
    [d EXCEPT !.tables = Put(@, table_name, df),
              !.order = AppendKey(@, table_name),
              !.history = Unshare(@, table_name)]

\* the object self.tables[table_name] was changed in place to the value df
InPlace(d, table_name, df) ==
    [d EXCEPT !.tables[table_name] = df,
              !.history = SyncShared(@, table_name, df)]

UndoStack(d, name) == StackOf(d.history.snapshot_cache, name)
RedoStack(d, name) == StackOf(d.history.redo_stack, name)

\* DataManager.save_snapshot
save_snapshot(d, table_name) ==
    IF table_name \in DOMAIN d.tables
    THEN [d EXCEPT !.history = hist_save_snapshot(@, table_name, d.tables[table_name])]
    ELSE d

\* load_table making every loaded table the active one
load_table_always_activates(d, file, table_name, now) ==
    LET name == IF table_name = None THEN file.stem ELSE table_name
    IN IF ~file.readable THEN Result(d, FALSE)
       ELSE LET d1 == update_table_metadata(Rebind(d, name, file.df), name)
                d2 == [d1 EXCEPT !.active_table = name]
                d3 == [d2 EXCEPT !.history = hist_save_snapshot(@, name, file.df)]
                d4 == [d3 EXCEPT !.history = add_operation(@, "load", name, now)]
            IN Result(d4, TRUE)

\* file: what pd.read_excel finds at file_path: [stem, readable, df]
load_table(d, file, table_name, now) ==
    LET name == IF table_name = None THEN file.stem ELSE table_name
    IN IF ~file.readable THEN Result(d, FALSE)
       ELSE LET d1 == update_table_metadata(Rebind(d, name, file.df), name)
                d2 == [d1 EXCEPT !.active_table = IF @ = None THEN name ELSE @]
                d3 == [d2 EXCEPT !.history = hist_save_snapshot(@, name, file.df)]
                d4 == [d3 EXCEPT !.history = add_operation(@, "load", name, now)]
            IN Result(d4, TRUE)

\* out: the output path, [name, writable]
save_table(d, table_name, out, now) ==
    IF table_name \notin DOMAIN d.tables THEN Result(d, FALSE)
    ELSE IF ~out.writable THEN Result(d, FALSE)
    ELSE LET d1 == [d EXCEPT !.last_saved_filename = out.name]
             d2 == save_snapshot(d1, table_name)
             d3 == [d2 EXCEPT !.history = add_operation(@, "save", table_name, now)]
         IN Result(d3, TRUE)

\* set_active_table without the truthiness test of the name
set_active_table_accepts_empty(d, table_name) ==
    IF table_name # None /\ table_name \in DOMAIN d.tables
    THEN Result([d EXCEPT !.active_table = table_name], TRUE)
    ELSE Result(d, FALSE)

set_active_table(d, table_name) ==
    IF table_name # "" /\ table_name # None /\ table_name \in DOMAIN d.tables
    THEN Result([d EXCEPT !.active_table = table_name], TRUE)
    ELSE Result(d, FALSE)

\* set_cell_value without its save_snapshot call
set_cell_value_without_snapshot(d, table_name, cell_ref, value) ==
    IF table_name \notin DOMAIN d.tables THEN Result(d, FALSE)
    ELSE LET df == d.tables[table_name]
             cell == parse_cell_reference(cell_ref)
         IN IF ~cell.ok THEN Result(d, FALSE)
            ELSE IF ~validate_cell_position(cell.row, cell.col, NRows(df), NCols(df))
            THEN Result(d, FALSE)
            ELSE LET d1 == InPlace(d, table_name, IlocSet(df, cell.row, cell.col, value))
                 IN Result(update_table_metadata(d1, table_name), TRUE)

set_cell_value(d, table_name, cell_ref, value) ==
    IF table_name \notin DOMAIN d.tables THEN Result(d, FALSE)
    ELSE LET df == d.tables[table_name]
             cell == parse_cell_reference(cell_ref)
         IN IF ~cell.ok THEN Result(d, FALSE)
            ELSE IF ~validate_cell_position(cell.row, cell.col, NRows(df), NCols(df))
            THEN Result(d, FALSE)
            ELSE LET d1 == InPlace(d, table_name, IlocSet(df, cell.row, cell.col, value))
                     d2 == save_snapshot(d1, table_name)
                 IN Result(update_table_metadata(d2, table_name), TRUE)

\* values.values broadcast by numpy to rows x cols; a block is a non-empty
\* sequence of equally long non-empty rows
Broadcastable(block, rows, cols) ==
    /\ Len(block) \in {1, rows}
    /\ Len(block[1]) \in {1, cols}

Broadcast(block, rows, cols) ==
    [i \in 1..rows |->
        [j \in 1..cols |->
            block[IF Len(block) = 1 THEN 1 ELSE i][IF Len(block[1]) = 1 THEN 1 ELSE j]]]

\* df.iloc[start_row:end_row+1, start_col:end_col+1] = block
IlocSetRange(df, range, block) ==
    [df EXCEPT !.rows =
        [i \in 1..NRows(df) |->
            [j \in 1..NCols(df) |->
                IF /\ range.start_row + 1 <= i /\ i <= range.end_row + 1
                   /\ range.start_col + 1 <= j /\ j <= range.end_col + 1
                THEN block[i - range.start_row][j - range.start_col]
                ELSE df.rows[i][j]]]]

\* The results of set_range_values: the assignment raises, and the call
\* returns False, when numpy cannot broadcast the block to the range; a
\* block one column wide assigned to a wider range is broadcast when the
\* frame is stored as one block and refused when it is stored column by
\* column.
set_range_values(d, table_name, range_ref, values) ==
    IF table_name \notin DOMAIN d.tables THEN {Result(d, FALSE)}
    ELSE LET df == d.tables[table_name]
             range_info == parse_range(range_ref)
         IN IF ~range_info.ok THEN {Result(d, FALSE)}
            ELSE IF ~validate_range(range_info.start_row, range_info.start_col,
                                    range_info.end_row, range_info.end_col,
                                    NRows(df), NCols(df))
            THEN {Result(d, FALSE)}
            ELSE LET rows == range_info.end_row - range_info.start_row + 1
                     cols == range_info.end_col - range_info.start_col + 1
                     written == IlocSetRange(df, range_info, Broadcast(values, rows, cols))
                     done == Result(update_table_metadata(
                                        InPlace(d, table_name, written), table_name), TRUE)
                 IN IF ~Broadcastable(values, rows, cols) THEN {Result(d, FALSE)}
                    ELSE IF Len(values[1]) = cols THEN {done}
                    ELSE {done, Result(d, FALSE)}

\* remove_table leaving active_table as it was
remove_table_keeps_active(d, table_name) ==
    IF table_name \in DOMAIN d.tables
    THEN Result([d EXCEPT !.tables = Del(@, table_name),
                          !.order = RemoveKey(d.order, table_name),
                          !.table_metadata = Del(@, table_name),
                          !.history = Unshare(@, table_name)], TRUE)
    ELSE Result(d, FALSE)

remove_table(d, table_name) ==
    IF table_name \in DOMAIN d.tables
    THEN LET order == RemoveKey(d.order, table_name)
             active == IF d.active_table = table_name
                       THEN (IF Len(order) > 0 THEN order[1] ELSE None)
                       ELSE d.active_table
         IN Result([d EXCEPT !.tables = Del(@, table_name),
                             !.order = order,
                             !.table_metadata = Del(@, table_name),
                             !.active_table = active,
                             !.history = Unshare(@, table_name)], TRUE)
    ELSE Result(d, FALSE)

add_operation_to_history(d, table_name, now) ==
    Result([d EXCEPT !.history = add_operation(@, "group", table_name, now)], None)

can_undo(d, table_name) ==
    LET name == IF table_name = None THEN d.active_table ELSE table_name
    IN IF name = None THEN FALSE ELSE hist_can_undo(d.history, name)

can_redo(d, table_name) ==
    LET name == IF table_name = None THEN d.active_table ELSE table_name
    IN IF name = None THEN FALSE ELSE hist_can_redo(d.history, name)

\* the restored object becomes tables[name] itself: the top entry is shared
Restore(d, name, r) ==
    LET d1 == [d EXCEPT !.tables = Put(@, name, r.data),
                        !.order = AppendKey(@, name),
                        !.history = ShareTop(r.h, name)]
    IN update_table_metadata(d1, name)

undo(d, table_name) ==
    LET name == IF table_name = None THEN d.active_table ELSE table_name
    IN IF name = None THEN Result(d, FALSE)
       ELSE IF ~can_undo(d, name) THEN Result(d, FALSE)
       ELSE Result(Restore(d, name, hist_undo(d.history, name)), TRUE)

redo(d, table_name) ==
    LET name == IF table_name = None THEN d.active_table ELSE table_name
    IN IF name = None THEN Result(d, FALSE)
       ELSE IF ~can_redo(d, name) THEN Result(d, FALSE)
       ELSE Result(Restore(d, name, hist_redo(d.history, name)), TRUE)

(***************************************************************************)
(* DataManager.set_header_row                                              *)
(***************************************************************************)
PlaceholderNames == <<"column_0", "column_1", "column_2", "column_3", "column_4">>
\* f'column_{i}'
ColumnPlaceholder(i) == Str(PlaceholderNames[i + 1])

RECURSIVE UniqueHeaderLoop(_, _, _, _)
UniqueHeaderLoop(new_header, i, seen, unique_header) ==
    IF i >= Len(new_header) THEN unique_header
    ELSE LET col0 == new_header[i + 1]
             col == IF col0 \in seen \/ IsNa(col0) \/ col0 = Str("")
                    THEN ColumnPlaceholder(i) ELSE col0
         IN UniqueHeaderLoop(new_header, i + 1, seen \cup {col}, Append(unique_header, col))

UniqueHeader(new_header) == UniqueHeaderLoop(new_header, 0, {}, <<>>)

Fail == [success |-> FALSE]
Ok == [success |-> TRUE]

\* str(v) of a value that is present, '' for a missing one; the text of a
\* number is kept apart from the number
PreviewText(v) ==
    IF IsNa(v) THEN Str("")
    ELSE IF v.k = "str" THEN v
    ELSE [k |-> "text", s |-> "", n |-> v.n, d |-> v.d]

detect_header(d, table_name, preview_rows) ==
    IF table_name \notin DOMAIN d.tables THEN Result(d, Fail)
    ELSE LET df == d.tables[table_name]
             current_header_row == IF table_name \in DOMAIN d.table_metadata
                                   THEN d.table_metadata[table_name].header_row ELSE 0
         IN Result(d, [success |-> TRUE,
                       table_name |-> table_name,
                       current_header_row |-> current_header_row,
                       current_columns |-> df.columns,
                       preview |-> [i \in 1..Min(preview_rows, NRows(df)) |->
                                      [row_index |-> i - 1,
                                       values |-> [j \in 1..NCols(df) |->
                                                     PreviewText(df.rows[i][j])]]]])
\* header_row >= 0
set_header_row(d, table_name, header_row, now) ==
    IF table_name \notin DOMAIN d.tables THEN Result(d, Fail)
    ELSE LET df == d.tables[table_name]
         IN IF header_row >= NRows(df) THEN Result(d, Fail)
            ELSE LET unique_header == UniqueHeader(df.rows[header_row + 1])
                     relabelled == [df EXCEPT !.columns = unique_header]
                     d1 == InPlace(d, table_name, relabelled)
                     d2 == IF header_row > 0
                           THEN Rebind(d1, table_name,
                                       DF(unique_header,
                                          SubSeq(df.rows, header_row + 2, NRows(df))))
                           ELSE d1
                     d3 == update_table_metadata(d2, table_name)
                     d4 == [d3 EXCEPT !.table_metadata[table_name].header_row = header_row]
                     d5 == [d4 EXCEPT !.history =
                                add_operation(@, "set_header", table_name, now)]
                 IN Result(d5, [success |-> TRUE, new_columns |-> unique_header])

(***************************************************************************)
(* The tool catalog of ExcelAgent._create_tools.  A tool returns a set of  *)
(* results: one result, except where pandas leaves the outcome open.       *)
(***************************************************************************)
\* table_name defaulting to the active table
Resolve(d, table_name) == IF table_name = None THEN d.active_table ELSE table_name

Column(df, c) == [i \in 1..NRows(df) |-> df.rows[i][ColIndex(df, c)]]

\* df[c] = values: overwrite the column, or append it when the label is new
SetColumn(df, c, values) ==
    IF HasColumn(df, c)
    THEN [df EXCEPT !.rows = [i \in 1..NRows(df) |->
                                 [df.rows[i] EXCEPT ![ColIndex(df, c)] = values[i]]]]
    ELSE DF(Append(df.columns, c),
            [i \in 1..NRows(df) |-> Append(df.rows[i], values[i])])

RowOrders(n) ==
    {p \in [1..n -> 1..n] : \A i, j \in 1..n : i # j => p[i] # p[j]}

\* df.sort_values(by=column, ascending=...) raises on str/number comparison
SortRaises(df, column) ==
    \E i, j \in 1..NRows(df) :
        LET a == Column(df, column)[i]
            b == Column(df, column)[j]
        IN ~IsNa(a) /\ ~IsNa(b) /\ ~Comparable(a, b)

\* the row orders sort_values may produce: keys in order, NaN last; the
\* order of equal keys is left open (kind='quicksort' is not stable)
SortOrders(df, column, ascending) ==
    LET key == Column(df, column)
    IN {p \in RowOrders(NRows(df)) :
          \A i, j \in 1..NRows(df) : i < j =>
              LET a == key[p[i]]
                  b == key[p[j]]
              IN /\ IsNa(a) => IsNa(b)
                 /\ (~IsNa(a) /\ ~IsNa(b)) =>
                        IF ascending THEN ~Less(b, a) ELSE ~Less(a, b)}

sort_data(d, column, order, table_name) ==
    LET name == Resolve(d, table_name)
    IN IF name = None \/ name \notin DOMAIN d.tables THEN {Result(d, Fail)}
       ELSE LET df == d.tables[name]
            IN IF ~HasColumn(df, column) THEN {Result(d, Fail)}
               ELSE IF SortRaises(df, column) THEN {Result(d, Fail)}
               ELSE {Result(update_table_metadata(
                                Rebind(d, name,
                                       DF(df.columns, [i \in 1..NRows(df) |-> df.rows[p[i]]])),
                                name),
                            [success |-> TRUE, rows |-> NRows(df)]) :
                     p \in SortOrders(df, column, order = "asc")}

\* strings that are empty after str.strip()
IsBlank(v) == IsNa(v) \/ v = Str("") \/ v = Str(" ")

CountWhere(values, P(_)) == Cardinality({i \in DOMAIN values : P(values[i])})

\* `if source_column`: an argument that is given and not the empty string
Truthy(v) == v # NoValue /\ v # Str("")

\* fill_na reporting every masked cell as filled
fill_na_counts_all_masked(d, target_column, source_column, value, table_name) ==
    LET name == Resolve(d, table_name)
    IN IF name = None \/ name \notin DOMAIN d.tables THEN {Result(d, Fail)}
       ELSE LET df == d.tables[name]
            IN IF ~HasColumn(df, target_column) THEN {Result(d, Fail)}
               ELSE IF Truthy(source_column) /\ ~HasColumn(df, source_column)
               THEN {Result(d, Fail)}
               ELSE IF Truthy(source_column)
               THEN LET target == Column(df, target_column)
                        source == Column(df, source_column)
                        null_count_before == CountWhere(target, IsNa)
                        filled == [i \in 1..NRows(df) |->
                                     IF IsNa(target[i]) THEN source[i] ELSE target[i]]
                        df_copy == SetColumn(df, target_column, filled)
                    IN {Result(update_table_metadata(Rebind(d, name, df_copy), name),
                               [success |-> TRUE,
                                null_count_before |-> null_count_before,
                                filled_count |-> null_count_before])}
               ELSE IF value # NoValue
               THEN LET target == Column(df, target_column)
                        null_count_before == CountWhere(target, IsBlank)
                        filled == [i \in 1..NRows(df) |->
                                     IF IsBlank(target[i]) THEN value ELSE target[i]]
                        df_copy == SetColumn(df, target_column, filled)
                    IN {Result(update_table_metadata(Rebind(d, name, df_copy), name),
                               [success |-> TRUE,
                                null_count_before |-> null_count_before,
                                filled_count |-> null_count_before
                                                 - CountWhere(filled, IsBlank)])}
               ELSE {Result(d, Fail)}

\* source_column and value are NoValue when not given
fill_na(d, target_column, source_column, value, table_name) ==
    LET name == Resolve(d, table_name)
    IN IF name = None \/ name \notin DOMAIN d.tables THEN {Result(d, Fail)}
       ELSE LET df == d.tables[name]
            IN IF ~HasColumn(df, target_column) THEN {Result(d, Fail)}
               ELSE IF Truthy(source_column) /\ ~HasColumn(df, source_column)
               THEN {Result(d, Fail)}
               ELSE IF Truthy(source_column)
               THEN LET target == Column(df, target_column)
                        source == Column(df, source_column)
                        null_count_before == CountWhere(target, IsNa)
                        filled == [i \in 1..NRows(df) |->
                                     IF IsNa(target[i]) THEN source[i] ELSE target[i]]
                        df_copy == SetColumn(df, target_column, filled)
                    IN {Result(update_table_metadata(Rebind(d, name, df_copy), name),
                               [success |-> TRUE,
                                null_count_before |-> null_count_before,
                                filled_count |-> null_count_before
                                                 - CountWhere(filled, IsNa)])}
               ELSE IF value # NoValue
               THEN LET target == Column(df, target_column)
                        null_count_before == CountWhere(target, IsBlank)
                        filled == [i \in 1..NRows(df) |->
                                     IF IsBlank(target[i]) THEN value ELSE target[i]]
                        df_copy == SetColumn(df, target_column, filled)
                    IN {Result(update_table_metadata(Rebind(d, name, df_copy), name),
                               [success |-> TRUE,
                                null_count_before |-> null_count_before,
                                filled_count |-> null_count_before
                                                 - CountWhere(filled, IsBlank)])}
               ELSE {Result(d, Fail)}

copy_column(d, target_column, source_column, table_name) ==
    LET name == Resolve(d, table_name)
    IN IF name = None \/ name \notin DOMAIN d.tables THEN {Result(d, Fail)}
       ELSE LET df == d.tables[name]
            IN IF ~HasColumn(df, source_column) THEN {Result(d, Fail)}
               ELSE IF ~HasColumn(df, target_column) THEN {Result(d, Fail)}
               ELSE {Result(update_table_metadata(
                                Rebind(d, name,
                                       SetColumn(df, target_column, Column(df, source_column))),
                                name),
                            [success |-> TRUE, rows_updated |-> NRows(df)])}

(***************************************************************************)
(* column_calculation                                                      *)
(***************************************************************************)
NumericStrings == <<"0", "1", "2">>
\* pd.to_numeric(..., errors='coerce') on one value
ToNumeric(v) ==
    IF IsNumber(v) THEN v
    ELSE IF v.k = "str" /\ \E i \in 1..Len(NumericStrings) : NumericStrings[i] = v.s
    THEN Num((CHOOSE i \in 1..Len(NumericStrings) : NumericStrings[i] = v.s) - 1)
    ELSE NaN

Abs(i) == IF i < 0 THEN -i ELSE i
RECURSIVE Gcd(_, _)
Gcd(a, b) == IF b = 0 THEN a ELSE Gcd(b, a % b)
Sign(i) == IF i > 0 THEN 1 ELSE IF i < 0 THEN -1 ELSE 0

\* the number n / d, d # 0
Frac(n, d) ==
    LET g == Gcd(Abs(n), Abs(d))
    IN [k |-> "num", s |-> "", n |-> (Sign(d) * n) \div g, d |-> Abs(d) \div g]

\* elementwise float arithmetic of two numeric Series (signed zero left out)
Arith(operation, a, b) ==
    IF IsNa(a) \/ IsNa(b) THEN NaN
    ELSE IF a.k = "inf" \/ b.k = "inf"
    THEN CASE operation = "add" ->
                IF a.k = "inf" /\ b.k = "inf" /\ a.n # b.n THEN NaN
                ELSE IF a.k = "inf" THEN a ELSE b
           [] operation = "subtract" ->
                IF a.k = "inf" /\ b.k = "inf" /\ a.n = b.n THEN NaN
                ELSE IF a.k = "inf" THEN a ELSE Inf(-b.n)
           [] operation = "multiply" ->
                IF Sign(a.n) * Sign(b.n) = 0 THEN NaN ELSE Inf(Sign(a.n) * Sign(b.n))
           [] operation = "divide" ->
                IF a.k = "inf" /\ b.k = "inf" THEN NaN
                ELSE IF b.k = "inf" THEN Num(0)
                ELSE Inf(a.n * (IF b.n < 0 THEN -1 ELSE 1))
    ELSE CASE operation = "add" -> Frac(a.n * b.d + b.n * a.d, a.d * b.d)
           [] operation = "subtract" -> Frac(a.n * b.d - b.n * a.d, a.d * b.d)
           [] operation = "multiply" -> Frac(a.n * b.n, a.d * b.d)
           [] operation = "divide" ->
                IF b.n = 0 THEN (IF a.n = 0 THEN NaN ELSE Inf(Sign(a.n)))
                ELSE Frac(a.n * b.d, a.d * b.n)

Operations == {"add", "subtract", "multiply", "divide"}

column_calculation(d, operation, column1, column2, target_column, table_name) ==
    LET name == Resolve(d, table_name)
    IN IF name = None \/ name \notin DOMAIN d.tables THEN {Result(d, Fail)}
       ELSE LET df == d.tables[name]
            IN IF ~HasColumn(df, column1) THEN {Result(d, Fail)}
               ELSE IF ~HasColumn(df, column2) THEN {Result(d, Fail)}
               ELSE IF operation \notin Operations THEN {Result(d, Fail)}
               ELSE LET col1_data == [i \in 1..NRows(df) |-> ToNumeric(Column(df, column1)[i])]
                        col2_data == [i \in 1..NRows(df) |-> ToNumeric(Column(df, column2)[i])]
                        result_data == [i \in 1..NRows(df) |->
                                          Arith(operation, col1_data[i], col2_data[i])]
                        df_copy == SetColumn(df, target_column, result_data)
                    IN {Result(update_table_metadata(Rebind(d, name, df_copy), name),
                               [success |-> TRUE, rows_updated |-> NRows(df)])}

(***************************************************************************)
(* insert_data                                                             *)
(***************************************************************************)
\* df.iloc[row, col] = value: negative positions count from the end,
\* positions outside the frame raise IndexError
IlocInBounds(df, row, col) ==
    /\ -NRows(df) <= row /\ row < NRows(df)
    /\ -NCols(df) <= col /\ col < NCols(df)
IlocPos(len, i) == IF i < 0 THEN len + i ELSE i

\* a scalar as stored in a frame: None is a missing value
PyValue(value) == IF value = NoValue THEN NaN ELSE value

\* target_cell is <<>> and target_column NoValue when not given
insert_data(d, target_table, target_column, target_cell, value) ==
    IF target_table \notin DOMAIN d.tables THEN {Result(d, Fail)}
    ELSE LET df == d.tables[target_table]
             cell == parse_cell_reference(target_cell)
         IN IF Len(target_cell) > 0 /\ ~cell.ok THEN {Result(d, Fail)}
            ELSE IF Len(target_cell) > 0
            THEN IF ~IlocInBounds(df, cell.row, cell.col) THEN {Result(d, Fail)}
                 ELSE LET written == IlocSet(df, IlocPos(NRows(df), cell.row),
                                             IlocPos(NCols(df), cell.col), PyValue(value))
                      IN {Result(update_table_metadata(
                                     InPlace(d, target_table, written), target_table), Ok)}
            ELSE IF target_column # NoValue /\ target_column # Str("")
            THEN LET written == SetColumn(df, target_column,
                                          [i \in 1..NRows(df) |-> PyValue(value)])
                 IN {Result(update_table_metadata(
                                InPlace(d, target_table, written), target_table), Ok)}
            ELSE {Result(d, Fail)}

(***************************************************************************)
(* update_data.  The loop over source_df.iterrows() changes target_df in   *)
(* place; a KeyError leaves the changes made so far.  target_table and     *)
(* source_table are different tables.                                      *)
(***************************************************************************)
RECURSIVE UpdateLoop(_, _, _, _, _)
\* [df, raised]: the target after the source rows from idx on
UpdateLoop(target_df, source_df, idx, key, update_column) ==
    IF idx > NRows(source_df) THEN [df |-> target_df, raised |-> FALSE]
    ELSE IF ~HasColumn(source_df, key) \/ ~HasColumn(target_df, key)
    THEN [df |-> target_df, raised |-> TRUE]
    ELSE LET key_value == source_df.rows[idx][ColIndex(source_df, key)]
             mask == [i \in 1..NRows(target_df) |->
                        ~IsNa(key_value) /\ Column(target_df, key)[i] = key_value]
             any == \E i \in 1..NRows(target_df) : mask[i]
             with_column == IF HasColumn(target_df, update_column) THEN target_df
                            ELSE SetColumn(target_df, update_column,
                                           [i \in 1..NRows(target_df) |-> NaN])
         IN IF ~any
            THEN UpdateLoop(target_df, source_df, idx + 1, key, update_column)
            ELSE IF ~HasColumn(source_df, update_column)
            THEN [df |-> with_column, raised |-> TRUE]
            ELSE LET new_value == source_df.rows[idx][ColIndex(source_df, update_column)]
                     old == Column(with_column, update_column)
                     updated == SetColumn(with_column, update_column,
                                    [i \in 1..NRows(target_df) |->
                                        IF mask[i] THEN new_value ELSE old[i]])
                 IN UpdateLoop(updated, source_df, idx + 1, key, update_column)

update_data(d, target_table, source_table, key, update_column) ==
    IF target_table \notin DOMAIN d.tables \/ source_table \notin DOMAIN d.tables
    THEN {Result(d, Fail)}
    ELSE LET r == UpdateLoop(d.tables[target_table], d.tables[source_table],
                             1, key, update_column)
             d1 == InPlace(d, target_table, r.df)
         IN IF r.raised THEN {Result(d1, Fail)}
            ELSE {Result(update_table_metadata(d1, target_table), Ok)}

(***************************************************************************)
(* calculate, filter_data, group_data, merge_tables                        *)
(***************************************************************************)
CalcOperations == {"sum", "mean", "count", "max", "min", "median", "std", "var"}

\* the values of a Series that are not missing
Present(values) == SelectSeq(values, LAMBDA v : ~IsNa(v))
\* a Series of finite numbers (missing values allowed)
IsNumeric(values) == \A i \in 1..Len(values) : IsNa(values[i]) \/ values[i].k = "num"

RECURSIVE SeriesSum(_)
SeriesSum(values) ==
    IF Len(values) = 0 THEN Num(0)
    ELSE Arith("add", Head(values), SeriesSum(Tail(values)))

\* the reduction of a numeric Series, missing values skipped; median, std
\* and var are floats the model does not compute (NoValue)
Reduce(operation, values) ==
    LET present == Present(values)
        n == Len(present)
    IN CASE operation = "count" -> Num(n)
         [] operation = "sum" -> SeriesSum(present)
         [] operation = "mean" ->
              IF n = 0 THEN NaN ELSE Arith("divide", SeriesSum(present), Num(n))
         [] operation = "max" ->
              IF n = 0 THEN NaN
              ELSE present[CHOOSE i \in 1..n : \A j \in 1..n : ~Less(present[i], present[j])]
         [] operation = "min" ->
              IF n = 0 THEN NaN
              ELSE present[CHOOSE i \in 1..n : \A j \in 1..n : ~Less(present[j], present[i])]
         [] OTHER -> NoValue

\* a reduction other than count of a column that holds text or an infinity
\* either raises or gives a value the model does not compute
calculate(d, operation, column, table_name) ==
    LET name == Resolve(d, table_name)
    IN IF name = None \/ name \notin DOMAIN d.tables THEN {Result(d, Fail)}
       ELSE LET df == d.tables[name]
            IN IF ~HasColumn(df, column) THEN {Result(d, Fail)}
               ELSE IF operation \notin CalcOperations THEN {Result(d, Fail)}
               ELSE IF operation = "count" \/ IsNumeric(Column(df, column))
               THEN {Result(d, [success |-> TRUE,
                                result |-> Reduce(operation, Column(df, column))])}
               ELSE {Result(d, Fail), Result(d, [success |-> TRUE, result |-> NoValue])}

\* a condition of df.query: [column, cmp, value], cmp "==" or ">"; any other
\* cmp stands for an expression that query cannot evaluate
QueryRaises(df, condition) ==
    \/ condition.cmp \notin {"==", ">"}
    \/ ~HasColumn(df, condition.column)
    \/ /\ condition.cmp = ">"
       /\ \E i \in 1..NRows(df) :
             LET v == Column(df, condition.column)[i]
             IN ~IsNa(v) /\ ~Comparable(v, condition.value)

Matches(v, condition) ==
    /\ ~IsNa(v)
    /\ IF condition.cmp = "==" THEN v = condition.value ELSE Less(condition.value, v)

Query(df, condition) ==
    SelectSeq(df.rows, LAMBDA row : Matches(row[ColIndex(df, condition.column)], condition))

\* str(v) if pd.isna(v) else v
SampleValue(v) == IF IsNa(v) THEN Str("nan") ELSE v

filter_data(d, condition, table_name) ==
    LET name == Resolve(d, table_name)
    IN IF name = None \/ name \notin DOMAIN d.tables THEN {Result(d, Fail)}
       ELSE LET df == d.tables[name]
            IN IF QueryRaises(df, condition) THEN {Result(d, Fail)}
               ELSE LET filtered == Query(df, condition)
                    IN {Result(d, [success |-> TRUE,
                                   table_name |-> name,
                                   rows |-> Len(filtered),
                                   sample_data |->
                                       [i \in 1..Min(5, Len(filtered)) |->
                                          [j \in 1..NCols(df) |-> SampleValue(filtered[i][j])]]])}

\* the group keys: the distinct values of the column that are not missing
GroupKeys(df, column) ==
    {Column(df, column)[i] : i \in {j \in 1..NRows(df) : ~IsNa(Column(df, column)[j])}}

\* groupby sorts the keys; keys that cannot be compared stay in an order
\* the model leaves open
KeyOrders(keys) ==
    {q \in [1..Cardinality(keys) -> keys] :
        /\ \A i, j \in 1..Cardinality(keys) : i # j => q[i] # q[j]
        /\ (\A a, b \in keys : Comparable(a, b)) =>
              \A i, j \in 1..Cardinality(keys) : i < j => Less(q[i], q[j])}

\* the values of column c in the rows of the group of key
GroupValues(df, column, key, c) ==
    LET rows == SelectSeq(df.rows, LAMBDA row : row[ColIndex(df, column)] = key)
    IN [i \in 1..Len(rows) |-> rows[i][c]]

RECURSIVE Concat(_)
Concat(values) ==
    IF Len(values) = 0 THEN "" ELSE Head(values).s \o Concat(Tail(values))

\* sum adds numbers and concatenates text, and raises on a mix of both
AggRaises(agg_func, values) ==
    /\ agg_func = "sum"
    /\ \E i, j \in 1..Len(values) : values[i].k = "str" /\ IsNumber(values[j])

Agg(agg_func, values) ==
    IF agg_func = "count" THEN Num(Len(Present(values)))
    ELSE IF \E i \in 1..Len(values) : values[i].k = "str"
    THEN Str(Concat(Present(values)))
    ELSE SeriesSum(Present(values))

GroupAggs == {"sum", "count"}

\* agg_func is "sum", "count" or a name that pandas does not know
group_data(d, column, agg_func, table_name) ==
    LET name == Resolve(d, table_name)
    IN IF name = None \/ name \notin DOMAIN d.tables THEN {Result(d, Fail)}
       ELSE LET df == d.tables[name]
            IN IF ~HasColumn(df, column) THEN {Result(d, Fail)}
               ELSE IF agg_func \notin GroupAggs THEN {Result(d, Fail)}
               ELSE LET others == SelectSeq([i \in 1..NCols(df) |-> i],
                                            LAMBDA i : df.columns[i] # column)
                        keys == GroupKeys(df, column)
                    IN IF \E key \in keys : \E i \in 1..Len(others) :
                             AggRaises(agg_func, GroupValues(df, column, key, others[i]))
                       THEN {Result(d, Fail)}
                       ELSE LET result_key == "grouped_" \o name
                                Grouped(q) ==
                                    DF(<<column>> \o [i \in 1..Len(others) |->
                                                        df.columns[others[i]]],
                                       [g \in 1..Cardinality(keys) |->
                                          <<q[g]>> \o
                                          [i \in 1..Len(others) |->
                                             Agg(agg_func,
                                                 GroupValues(df, column, q[g], others[i]))]])
                            IN {Result(update_table_metadata(
                                           Rebind(d, result_key, Grouped(q)), result_key),
                                       [success |-> TRUE,
                                        result_table |-> result_key,
                                        rows |-> Cardinality(keys)]) :
                                q \in KeyOrders(keys)}

\* the dtype of a column is numeric when it holds no text
NumericColumn(df, c) == \A i \in 1..NRows(df) : Column(df, c)[i].k # "str"

MergeHows == {"inner", "left"}

\* pd.merge raises on an unknown how, on a key that one side lacks and on
\* key columns of which one is numeric and one is text
MergeRaises(left, right, key, how) ==
    \/ how \notin MergeHows
    \/ ~HasColumn(left, key)
    \/ ~HasColumn(right, key)
    \/ NumericColumn(left, key) # NumericColumn(right, key)

\* a label that both sides have gets the suffix of its side
Suffixed(label, other, key, suffix) ==
    IF label # key /\ HasColumn(other, label) /\ label.k = "str"
    THEN Str(label.s \o suffix) ELSE label

RECURSIVE MergeRows(_, _, _, _, _)
\* the rows of the merge from left row i on: each left row with every
\* right row of the same key, and alone when how is "left" and there is none
MergeRows(left, right, key, how, i) ==
    IF i > NRows(left) THEN <<>>
    ELSE LET rest == SelectSeq([j \in 1..NCols(right) |-> j],
                               LAMBDA j : right.columns[j] # key)
             hits == SelectSeq(right.rows,
                               LAMBDA row : row[ColIndex(right, key)]
                                            = left.rows[i][ColIndex(left, key)])
             joined == [h \in 1..Len(hits) |->
                          left.rows[i] \o [j \in 1..Len(rest) |-> hits[h][rest[j]]]]
             alone == IF how = "left" /\ Len(hits) = 0
                      THEN <<left.rows[i] \o [j \in 1..Len(rest) |-> NaN]>>
                      ELSE <<>>
         IN joined \o alone \o MergeRows(left, right, key, how, i + 1)

\* pd.merge(left, right, on=key, how=how)
Merge(left, right, key, how) ==
    LET rest == SelectSeq([j \in 1..NCols(right) |-> j],
                          LAMBDA j : right.columns[j] # key)
    IN DF([j \in 1..NCols(left) |-> Suffixed(left.columns[j], right, key, "_x")]
          \o [j \in 1..Len(rest) |-> Suffixed(right.columns[rest[j]], left, key, "_y")],
          MergeRows(left, right, key, how, 1))

RECURSIVE MergeFrom(_, _, _, _, _, _)
\* the loop over dfs[1:]: [df, raised]
MergeFrom(d, merged_df, tables, i, key, how) ==
    IF i > Len(tables) THEN [df |-> merged_df, raised |-> FALSE]
    ELSE IF MergeRaises(merged_df, d.tables[tables[i]], key, how)
    THEN [df |-> merged_df, raised |-> TRUE]
    ELSE MergeFrom(d, Merge(merged_df, d.tables[tables[i]], key, how),
                   tables, i + 1, key, how)

\* tables is a sequence of names; dfs[0] and tables[1] raise IndexError on
\* a shorter list
merge_tables(d, tables, key, how) ==
    IF \E i \in 1..Len(tables) : tables[i] \notin DOMAIN d.tables
    THEN {Result(d, Fail)}
    ELSE IF Len(tables) < 2 THEN {Result(d, Fail)}
    ELSE LET m == MergeFrom(d, d.tables[tables[1]], tables, 2, key, how)
             result_key == "merged_" \o tables[1] \o "_and_" \o tables[2]
         IN IF m.raised THEN {Result(d, Fail)}
            ELSE {Result(update_table_metadata(Rebind(d, result_key, m.df), result_key),
                         [success |-> TRUE,
                          result_table |-> result_key,
                          rows |-> NRows(m.df),
                          columns |-> NCols(m.df)])}

(***************************************************************************)
(* The tools save_table, detect_header and set_header_row                  *)
(***************************************************************************)
\* the save tool reporting success whatever save_table returned
tool_save_table_ignores_result(d, table_name, out, now) ==
    LET r == save_table(d, table_name, out, now)
    IN {Result(r.d, [success |-> TRUE, filename |-> out.name])}

tool_save_table(d, table_name, out, now) ==
    LET r == save_table(d, table_name, out, now)
    IN {Result(r.d, IF r.ret THEN [success |-> TRUE, filename |-> out.name] ELSE Fail)}

tool_detect_header(d, table_name, preview_rows) ==
    LET name == Resolve(d, table_name)
    IN IF name = None THEN {Result(d, Fail)}
       ELSE {detect_header(d, name, preview_rows)}

tool_set_header_row(d, table_name, header_row, now) ==
    LET name == Resolve(d, table_name)
    IN IF name = None THEN {Result(d, Fail)}
       ELSE {set_header_row(d, name, header_row, now)}

(***************************************************************************)
(* The user interface: the "save edits" button of app_agent.py replaces    *)
(* the active table by the edited frame, snapshots it and refreshes the    *)
(* metadata.                                                               *)
(***************************************************************************)
save_edits(d, edited_df) ==
    LET name == d.active_table
    IN IF name = None \/ name \notin DOMAIN d.tables THEN Result(d, FALSE)
       ELSE Result(update_table_metadata(save_snapshot(Rebind(d, name, edited_df), name),
                                         name), TRUE)

(***************************************************************************)
(* The state machine.  The variables are the fields of one DataManager     *)
(* and its TableHistory; clock is the source of datetime.now(); steps      *)
(* counts the operations; last names the last operation (after_undo: it   *)
(* followed a successful undo of the same table) and appended lists every  *)
(* record add_operation was given.  cellop is the last call of a static    *)
(* method of CellOperations: its text, cell and range are the arguments    *)
(* and results, of_text and of_cell the input of the call before it.       *)
(* agent is the ExcelAgent.invoke under way: pc its position, run the      *)
(* stream of the workflow it is in, pending the tool call the agent node   *)
(* decided, tool_calls its log, executed the tool calls the tools node     *)
(* ran, and response_run the stream whose last message it returns.         *)
(***************************************************************************)
VARIABLES tables, order, table_metadata, active_table, history,
          last_saved_filename, clock, steps, last, appended, cellop, agent

vars == <<tables, order, table_metadata, active_table, history,
          last_saved_filename, clock, steps, last, appended, cellop, agent>>

StoreVars == <<tables, order, table_metadata, active_table, history,
               last_saved_filename, clock, steps, last, appended, agent>>

\* the DataManager object of the current state
DM == [tables |-> tables, order |-> order, table_metadata |-> table_metadata,
       active_table |-> active_table, history |-> history,
       last_saved_filename |-> last_saved_filename]

NoOp == [op |-> "init", table |-> None, ok |-> FALSE, after_undo |-> FALSE]

NoCall == [fn |-> "none", text |-> <<>>, cell |-> NoCell, range |-> NoRange,
           of_text |-> <<>>, of_cell |-> NoCell]

NoToolCall == [name |-> "none", column |-> NoValue]

\* no ExcelAgent.invoke is under way
NoInvoke == [pc |-> "idle", run |-> 0, calls |-> 0, pending |-> NoToolCall,
             tool_calls |-> <<>>, executed |-> <<>>, response_run |-> 0]

InitWith(limit) ==
    /\ tables = NewDataManager(limit).tables
    /\ order = NewDataManager(limit).order
    /\ table_metadata = NewDataManager(limit).table_metadata
    /\ active_table = NewDataManager(limit).active_table
    /\ history = NewDataManager(limit).history
    /\ last_saved_filename = NewDataManager(limit).last_saved_filename
    /\ clock = 0
    /\ steps = 0
    /\ last = NoOp
    /\ appended = <<>>
    /\ cellop = NoCall
    /\ agent = NoInvoke

Init == InitWith(HistoryLimit)

\* the operation op on table returned r; ok tells whether it succeeded,
\* recs are the records it handed to add_operation
Applied(r, op, table, ok, recs) ==
    /\ tables' = r.d.tables
    /\ order' = r.d.order
    /\ table_metadata' = r.d.table_metadata
    /\ active_table' = r.d.active_table
    /\ history' = r.d.history
    /\ last_saved_filename' = r.d.last_saved_filename
    /\ clock' = clock + Len(recs)
    /\ last' = [op |-> op, table |-> table, ok |-> ok,
                after_undo |-> last.op = "undo" /\ last.ok /\ last.table = table]
    /\ appended' = appended \o recs
    /\ UNCHANGED cellop

\* an operation called from outside an ExcelAgent.invoke
Commit(r, op, table, ok, recs) == Applied(r, op, table, ok, recs) /\ UNCHANGED agent

Now == clock + 1


Logged(ok, operation_type, table_name) ==
    IF ok THEN <<Record(operation_type, table_name, Now)>> ELSE <<>>

(***************************************************************************)
(* The inputs of the store specification.                                  *)
(***************************************************************************)
Names == {"t1", "t2"}
OptNames == Names \cup {None}

Frame1 == DF(<<Str("k"), Str("a")>>, << <<Num(1), NaN>>, <<Num(0), Str("x")>> >>)
Frame2 == DF(<<Str("k"), Str("b")>>, << <<Num(1), Num(2)>> >>)
NoFrame == DF(<<>>, <<>>)

Files == {[stem |-> "t1", readable |-> TRUE, df |-> Frame1],
          [stem |-> "t2", readable |-> TRUE, df |-> Frame2],
          [stem |-> "t2", readable |-> FALSE, df |-> NoFrame]}
Outputs == {[name |-> "out.xlsx", writable |-> TRUE],
            [name |-> "out.xlsx", writable |-> FALSE]}

CellRefs == {<<"A", "1">>, <<"b", "2">>, <<"A", "0">>, <<"C", "1">>, <<"1">>}
CellValues == {Num(0), Str("x")}
ColumnArgs == {Str("k"), Str("a"), Str("c")}
HeaderRows == 0..2
EditedFrames == {Frame2}
InsertCells == {<<>>, <<"A", "1">>, <<"A", "0">>, <<"C", "1">>}
UpdateKeys == {Str("k"), Str("a")}
UpdateColumns == {Str("b"), Str("c"), Str("a")}

(***************************************************************************)
(* The operations of the store.                                            *)
(***************************************************************************)
Load(file, name) ==
    LET r == load_table(DM, file, name, Now)
        table == IF name = None THEN file.stem ELSE name
    IN Commit(r, "load", table, r.ret, Logged(r.ret, "load", table))

Save(name, out) ==
    LET r == save_table(DM, name, out, Now)
    IN Commit(r, "save", name, r.ret, Logged(r.ret, "save", name))

SetActive(name) ==
    LET r == set_active_table(DM, name)
    IN Commit(r, "set_active", name, r.ret, <<>>)

SetCell(name, cell_ref, value) ==
    LET r == set_cell_value(DM, name, cell_ref, value)
    IN Commit(r, "set_cell", name, r.ret, <<>>)

Remove(name) ==
    LET r == remove_table(DM, name)
    IN Commit(r, "remove", name, r.ret, <<>>)

SetHeaderRow(name, header_row) ==
    LET r == set_header_row(DM, name, header_row, Now)
    IN Commit(r, "set_header", name, r.ret.success,
              Logged(r.ret.success, "set_header", name))

SaveSnapshot(name) ==
    Commit(Result(save_snapshot(DM, name), None), "snapshot", name,
           name \in DOMAIN tables, <<>>)

SaveEdits(edited_df) ==
    LET r == save_edits(DM, edited_df)
    IN Commit(r, "save_edits", active_table, r.ret, <<>>)

Undo(name) ==
    LET r == undo(DM, name)
    IN Commit(r, "undo", Resolve(DM, name), r.ret, <<>>)

Redo(name) ==
    LET r == redo(DM, name)
    IN Commit(r, "redo", Resolve(DM, name), r.ret, <<>>)

AddOperationToHistory(name) ==
    Commit(add_operation_to_history(DM, name, Now), "add_operation", name, TRUE,
           <<Record("group", name, Now)>>)

(***************************************************************************)
(* The tools of the catalog.                                               *)
(***************************************************************************)
Tool(results, op, table) ==
    \E r \in results : Commit(r, op, table, r.ret.success, <<>>)

Sort(column, sort_order, name) ==
    Tool(sort_data(DM, column, sort_order, name), "sort", Resolve(DM, name))

FillNa(target_column, source_column, value, name) ==
    Tool(fill_na(DM, target_column, source_column, value, name), "fill_na",
         Resolve(DM, name))

CopyColumn(target_column, source_column, name) ==
    Tool(copy_column(DM, target_column, source_column, name), "copy_column",
         Resolve(DM, name))

ColumnCalculation(operation, column1, column2, target_column, name) ==
    Tool(column_calculation(DM, operation, column1, column2, target_column, name),
         "column_calculation", Resolve(DM, name))

Insert(target_table, target_column, target_cell, value) ==
    Tool(insert_data(DM, target_table, target_column, target_cell, value),
         "insert", target_table)

Update(target_table, source_table, key, update_column) ==
    /\ target_table # source_table
    /\ Tool(update_data(DM, target_table, source_table, key, update_column),
            "update", target_table)

(***************************************************************************)
(* Spec: every operation of the store and the catalog, on two tables.      *)
(***************************************************************************)
More == steps < MaxSteps /\ steps' = steps + 1

LoadStep == More /\ \E file \in Files, name \in OptNames : Load(file, name)
SaveStep == More /\ \E name \in Names, out \in Outputs : Save(name, out)
SetActiveStep == More /\ \E name \in Names : SetActive(name)
SetCellStep ==
    More /\ \E name \in Names, cell_ref \in CellRefs, value \in CellValues :
               SetCell(name, cell_ref, value)
RemoveStep == More /\ \E name \in Names : Remove(name)
SetHeaderRowStep ==
    More /\ \E name \in Names, header_row \in HeaderRows : SetHeaderRow(name, header_row)
SaveSnapshotStep == More /\ \E name \in Names : SaveSnapshot(name)
SaveEditsStep == More /\ \E edited_df \in EditedFrames : SaveEdits(edited_df)
UndoStep == More /\ \E name \in OptNames : Undo(name)
RedoStep == More /\ \E name \in OptNames : Redo(name)
AddOperationToHistoryStep == More /\ \E name \in Names : AddOperationToHistory(name)

SortStep ==
    More /\ \E column \in ColumnArgs, sort_order \in {"asc", "desc"}, name \in OptNames :
               Sort(column, sort_order, name)
FillNaStep ==
    More /\ \E target_column \in ColumnArgs, source_column \in {Str("k"), NoValue},
               value \in {Str("0"), NoValue}, name \in OptNames :
               FillNa(target_column, source_column, value, name)
CopyColumnStep ==
    More /\ \E target_column, source_column \in ColumnArgs, name \in OptNames :
               CopyColumn(target_column, source_column, name)
ColumnCalculationStep ==
    More /\ \E operation \in {"add", "divide"}, column1, column2 \in {Str("k"), Str("a")},
               target_column \in {Str("a"), Str("c")}, name \in OptNames :
               ColumnCalculation(operation, column1, column2, target_column, name)
InsertStep ==
    More /\ \E target_table \in Names, target_column \in {Str("c"), NoValue},
               target_cell \in InsertCells, value \in {Str("x")} :
               Insert(target_table, target_column, target_cell, value)
UpdateStep ==
    More /\ \E target_table, source_table \in Names, key \in UpdateKeys,
               update_column \in UpdateColumns :
               Update(target_table, source_table, key, update_column)

Next ==
    \/ LoadStep
    \/ SaveStep
    \/ SetActiveStep
    \/ SetCellStep
    \/ RemoveStep
    \/ SetHeaderRowStep
    \/ SaveSnapshotStep
    \/ SaveEditsStep
    \/ UndoStep
    \/ RedoStep
    \/ AddOperationToHistoryStep
    \/ SortStep
    \/ FillNaStep
    \/ CopyColumnStep
    \/ ColumnCalculationStep
    \/ InsertStep
    \/ UpdateStep

Spec == Init /\ [][Next]_vars

(***************************************************************************)
(* SpecUndo: one table, its cell edits, snapshots, undo and redo, with an  *)
(* in-place tool (insert), a rebinding tool (sort) and remove.             *)
(***************************************************************************)
File1 == [stem |-> "t1", readable |-> TRUE, df |-> Frame1]
Writable == [name |-> "out.xlsx", writable |-> TRUE]
MoreUndo == steps < MaxUndoSteps /\ steps' = steps + 1

UndoLoad == MoreUndo /\ Load(File1, "t1")
UndoSetCell == MoreUndo /\ \E value \in CellValues : SetCell("t1", <<"A", "1">>, value)
UndoSaveSnapshot == MoreUndo /\ SaveSnapshot("t1")
UndoSave == MoreUndo /\ Save("t1", Writable)
UndoUndo == MoreUndo /\ \E name \in {"t1", None} : Undo(name)
UndoRedo == MoreUndo /\ \E name \in {"t1", None} : Redo(name)
UndoSort == MoreUndo /\ \E sort_order \in {"asc", "desc"} : Sort(Str("k"), sort_order, None)
UndoInsert == MoreUndo /\ Insert("t1", NoValue, <<"A", "2">>, Str("x"))
UndoRemove == MoreUndo /\ Remove("t1")

UndoNext ==
    \/ UndoLoad
    \/ UndoSetCell
    \/ UndoSaveSnapshot
    \/ UndoSave
    \/ UndoUndo
    \/ UndoRedo
    \/ UndoSort
    \/ UndoInsert
    \/ UndoRemove

SpecUndo == Init /\ [][UndoNext]_vars

(***************************************************************************)
(* SpecCap: long runs of snapshots, undo and redo on one table.            *)
(***************************************************************************)
\* the stacks are bounded; the table is loaded once, and steps counts the
\* explicit save_snapshot calls only
StackRoom == Len(UndoStack(DM, "t1")) < SnapshotCap + MaxCapOver
MoreCap == StackRoom /\ UNCHANGED steps

CapLoad == MoreCap /\ "t1" \notin DOMAIN tables /\ Load(File1, "t1")
CapSave == MoreCap /\ clock < MaxCapLog /\ Save("t1", Writable)
CapSetCell == MoreCap /\ SetCell("t1", <<"A", "1">>, Num(0))
CapSaveSnapshot ==
    StackRoom /\ steps < MaxCapSnapshots /\ steps' = steps + 1 /\ SaveSnapshot("t1")
CapUndo == MoreCap /\ Len(RedoStack(DM, "t1")) < MaxCapRedo /\ Undo("t1")
CapRedo == MoreCap /\ Redo("t1")

CapNext ==
    \/ CapLoad
    \/ CapSave
    \/ CapSetCell
    \/ CapSaveSnapshot
    \/ CapUndo
    \/ CapRedo

SpecCap == Init /\ [][CapNext]_vars

(***************************************************************************)
(* SpecLog: the operation log of a TableHistory(limit) for small limits.   *)
(***************************************************************************)
AddOperation(operation_type, name) ==
    Commit(Result([DM EXCEPT !.history = add_operation(@, operation_type, name, Now)], None),
           "add_operation", name, TRUE, <<Record(operation_type, name, Now)>>)

LogInit == \E limit \in 1..MaxLimit : InitWith(limit)
MoreLog == steps < MaxAppend /\ steps' = steps + 1

LogAddOperation ==
    MoreLog /\ \E operation_type \in {"calculate", "filter"} :
                  AddOperation(operation_type, "t1")
LogAddOperationToHistory == MoreLog /\ AddOperationToHistory("t2")
LogLoad == MoreLog /\ Load(File1, "t1")
LogSave == MoreLog /\ Save("t1", Writable)
LogSetHeaderRow == MoreLog /\ SetHeaderRow("t1", 1)

LogNext ==
    \/ LogAddOperation
    \/ LogAddOperationToHistory
    \/ LogLoad
    \/ LogSave
    \/ LogSetHeaderRow

SpecLog == LogInit /\ [][LogNext]_vars

(***************************************************************************)
(* SpecActive: which table is active, with the empty string among the      *)
(* table names.                                                            *)
(***************************************************************************)
ActiveNames == {"", "t1", "t2"}
ActiveArgs == ActiveNames \cup {None, "t3"}
ActiveFiles == {File1, [stem |-> "t2", readable |-> FALSE, df |-> NoFrame]}
MoreActive == steps < MaxActiveSteps /\ steps' = steps + 1

ActiveLoad ==
    MoreActive /\ \E file \in ActiveFiles, name \in ActiveNames \cup {None} :
                     Load(file, name)
ActiveSetActive == MoreActive /\ \E name \in ActiveArgs : SetActive(name)
ActiveRemove == MoreActive /\ \E name \in ActiveNames : Remove(name)

ActiveNext ==
    \/ ActiveLoad
    \/ ActiveSetActive
    \/ ActiveRemove

SpecActive == Init /\ [][ActiveNext]_vars

(***************************************************************************)
(* SpecHeader: set_header_row on sheets whose rows hold plain, blank,      *)
(* repeated and placeholder-shaped cells.                                  *)
(***************************************************************************)
HeaderCandidates ==
    {<<Str("h1"), Str("h2")>>, <<Str("h1"), Str("h1")>>,
     <<Str("column_1"), Str("")>>, <<NaN, Str("column_0")>>,
     <<Str(""), NaN>>, <<Num(3), Num(4)>>}
HeaderFrames ==
    {DF(<<Str("k"), Str("a")>>, <<first, <<Num(1), Num(2)>>, third>>) :
        first \in HeaderCandidates, third \in {<<Num(3), Num(4)>>, <<Str("column_1"), Str("")>>}}
HeaderFiles == {[stem |-> "t1", readable |-> TRUE, df |-> df] : df \in HeaderFrames}
MoreHeader == steps < MaxHeaderSteps /\ steps' = steps + 1

HeaderLoad == MoreHeader /\ \E file \in HeaderFiles : Load(file, None)
HeaderSetHeaderRow ==
    MoreHeader /\ \E header_row \in HeaderRows : SetHeaderRow("t1", header_row)

HeaderNext ==
    \/ HeaderLoad
    \/ HeaderSetHeaderRow

SpecHeader == Init /\ [][HeaderNext]_vars

(***************************************************************************)
(* SpecRange: range writes on one table.                                   *)
(***************************************************************************)
RangeRefs ==
    {<<"A", "1", ":", "B", "2">>, <<"A", "1", ":", "A", "2">>,
     <<"a", "2", ":", "b", "2">>, <<"B", "1", ":", "B", "1">>,
     <<"B", "2", ":", "A", "1">>, <<"A", "1", ":", "C", "1">>,
     <<"A", "1">>, <<"A", "1", ":", "B", "2", ":", "B", "2">>}
RangeValues == {Num(7), Str("y")}
\* the value blocks: 1x1, 1x2, 2x1 and 2x2
Blocks ==
    {<< <<v>> >> : v \in RangeValues}
    \cup {<< <<Num(7), Str("y")>> >>, << <<Num(7)>>, <<Str("y")>> >>,
          << <<Num(7), Str("y")>>, <<Str("y"), Num(7)>> >>}

SetRange(name, range_ref, values) ==
    \E r \in set_range_values(DM, name, range_ref, values) :
        Commit(r, "set_range", name, r.ret, <<>>)

MoreRange == steps < MaxRangeSteps /\ steps' = steps + 1

RangeLoad == MoreRange /\ Load(File1, "t1")
RangeSetRange ==
    MoreRange /\ \E range_ref \in RangeRefs, values \in Blocks :
                    SetRange("t1", range_ref, values)
RangeSetCell == MoreRange /\ SetCell("t1", <<"A", "1">>, Num(0))
RangeUndo == MoreRange /\ Undo("t1")

RangeNext ==
    \/ RangeLoad
    \/ RangeSetRange
    \/ RangeSetCell
    \/ RangeUndo

SpecRange == Init /\ [][RangeNext]_vars

(***************************************************************************)
(* SpecRef: the static methods of CellOperations on bounded texts and      *)
(* indices; the store is left alone.                                       *)
(***************************************************************************)
RefChars == {"A", "B", "Z", "a", "0", "1", "2", "\n"}
RefStrings == UNION {[1..n -> RefChars] : n \in 0..MaxRefLen}
RangeEndChars == {"A", "B", "1", "2"}
RangeEnds == UNION {[1..n -> RangeEndChars] : n \in 0..MaxRangeEndLen}
RangeStrings ==
    {start \o sep \o end :
        start \in RangeEnds, end \in RangeEnds, sep \in {<<":">>, <<>>, <<":", ":">>}}

\* the first call of a behaviour draws its arguments
RefParse ==
    /\ cellop.fn = "none"
    /\ \E s \in RefStrings :
          cellop' = [NoCall EXCEPT !.fn = "parse_cell_reference", !.text = s,
                                   !.cell = parse_cell_reference(s)]
    /\ UNCHANGED StoreVars

RefFormat ==
    /\ cellop.fn = "none"
    /\ \E row \in 0..MaxRefRow, col \in 0..MaxRefCol :
          cellop' = [NoCall EXCEPT !.fn = "cell_to_excel",
                                   !.cell = [ok |-> TRUE, row |-> row, col |-> col],
                                   !.text = cell_to_excel(row, col)]
    /\ UNCHANGED StoreVars

\* cell_to_excel on the cell parse_cell_reference has just returned
RefFormatParsed ==
    /\ cellop.fn = "parse_cell_reference" /\ cellop.cell.ok
    /\ cellop' = [NoCall EXCEPT !.fn = "cell_to_excel_of_parsed",
                                 !.of_text = cellop.text, !.cell = cellop.cell,
                                 !.text = cell_to_excel(cellop.cell.row, cellop.cell.col)]
    /\ UNCHANGED StoreVars

\* parse_cell_reference on the text cell_to_excel has just returned
RefParseFormatted ==
    /\ cellop.fn = "cell_to_excel"
    /\ cellop' = [NoCall EXCEPT !.fn = "parse_of_formatted",
                                 !.of_cell = cellop.cell, !.text = cellop.text,
                                 !.cell = parse_cell_reference(cellop.text)]
    /\ UNCHANGED StoreVars

RefParseRange ==
    /\ cellop.fn = "none"
    /\ \E s \in RangeStrings :
          cellop' = [NoCall EXCEPT !.fn = "parse_range", !.text = s,
                                   !.range = parse_range(s)]
    /\ UNCHANGED StoreVars

RefNext ==
    \/ RefParse
    \/ RefFormat
    \/ RefFormatParsed
    \/ RefParseFormatted
    \/ RefParseRange

SpecRef == Init /\ [][RefNext]_vars

(***************************************************************************)
(* SpecCatalog: the tools of the catalog on a store of at most two tables, *)
(* called with known and unknown table names and without a name.           *)
(***************************************************************************)
CatalogNames == {None, "t1", "t2"}
CatalogFiles == {File1, [stem |-> "t2", readable |-> TRUE, df |-> Frame2]}
CatalogColumns == {Str("k"), Str("a")}
CatalogConditions == {[column |-> Str("k"), cmp |-> "==", value |-> Num(1)],
                      [column |-> Str("a"), cmp |-> ">", value |-> Num(0)]}
CatalogMerges == {<<"t1", "t2">>, <<"t2", "t1">>, <<"t1">>}

ToolLogged(results, op, table) ==
    \E r \in results : Commit(r, op, table, r.ret.success, Logged(r.ret.success, op, table))

Calculate(operation, column, name) ==
    Tool(calculate(DM, operation, column, name), "calculate", Resolve(DM, name))

Filter(condition, name) ==
    Tool(filter_data(DM, condition, name), "filter", Resolve(DM, name))

Group(column, agg_func, name) ==
    Tool(group_data(DM, column, agg_func, name), "group", Resolve(DM, name))

MergeTables(names, key, how) ==
    Tool(merge_tables(DM, names, key, how), "merge", names[1])

SaveTool(name, out) ==
    ToolLogged(tool_save_table(DM, name, out, Now), "save", name)

DetectHeaderTool(name, preview_rows) ==
    Tool(tool_detect_header(DM, name, preview_rows), "detect_header", Resolve(DM, name))

SetHeaderRowTool(name, header_row) ==
    ToolLogged(tool_set_header_row(DM, name, header_row, Now), "set_header",
               Resolve(DM, name))

MoreCatalog == steps < MaxCatalogSteps /\ steps' = steps + 1

CatalogLoad == MoreCatalog /\ \E file \in CatalogFiles : Load(file, None)
CatalogSetCell == MoreCatalog /\ SetCell("t1", <<"A", "1">>, Num(0))
CatalogUndo == MoreCatalog /\ Undo("t1")
CatalogCalculate ==
    MoreCatalog /\ \E operation \in {"count", "sum", "mode"}, column \in CatalogColumns,
                      name \in CatalogNames : Calculate(operation, column, name)
CatalogFilter ==
    MoreCatalog /\ \E condition \in CatalogConditions, name \in CatalogNames :
                      Filter(condition, name)
CatalogSort ==
    MoreCatalog /\ \E column \in CatalogColumns, name \in CatalogNames :
                      Sort(column, "desc", name)
CatalogGroup ==
    MoreCatalog /\ \E column \in CatalogColumns, agg_func \in GroupAggs,
                      name \in CatalogNames : Group(column, agg_func, name)
CatalogInsert ==
    MoreCatalog /\ \E target_table \in CatalogNames :
                      Insert(target_table, NoValue, <<"A", "1">>, Str("x"))
CatalogMerge ==
    MoreCatalog /\ \E names \in CatalogMerges, how \in MergeHows :
                      MergeTables(names, Str("k"), how)
CatalogUpdate ==
    MoreCatalog /\ \E target_table, source_table \in CatalogNames :
                      Update(target_table, source_table, Str("k"), Str("a"))
CatalogFillNa ==
    MoreCatalog /\ \E source_column \in {Str("k"), NoValue}, name \in CatalogNames :
                      FillNa(Str("a"), source_column, Str("0"), name)
CatalogCopyColumn ==
    MoreCatalog /\ \E name \in CatalogNames : CopyColumn(Str("a"), Str("k"), name)
CatalogColumnCalculation ==
    MoreCatalog /\ \E name \in CatalogNames :
                      ColumnCalculation("divide", Str("k"), Str("k"), Str("a"), name)
CatalogSave ==
    MoreCatalog /\ \E name \in CatalogNames : SaveTool(name, Writable)
CatalogDetectHeader ==
    MoreCatalog /\ \E name \in CatalogNames : DetectHeaderTool(name, 1)
CatalogSetHeader ==
    MoreCatalog /\ \E name \in CatalogNames : SetHeaderRowTool(name, 1)

CatalogNext ==
    \/ CatalogLoad
    \/ CatalogSetCell
    \/ CatalogUndo
    \/ CatalogCalculate
    \/ CatalogFilter
    \/ CatalogSort
    \/ CatalogGroup
    \/ CatalogInsert
    \/ CatalogMerge
    \/ CatalogUpdate
    \/ CatalogFillNa
    \/ CatalogCopyColumn
    \/ CatalogColumnCalculation
    \/ CatalogSave
    \/ CatalogDetectHeader
    \/ CatalogSetHeader

SpecCatalog == Init /\ [][CatalogNext]_vars

(***************************************************************************)
(* SpecFill: fill_na on a table whose columns hold missing values, blank   *)
(* text and values, filled from a column or with a literal.                *)
(***************************************************************************)
FillFrame == DF(<<Str("a"), Str("b"), Str("k")>>,
                << <<NaN, NaN, Num(1)>>,
                   <<NaN, Str("x"), Num(2)>>,
                   <<Str(""), Str("y"), NaN>>,
                   <<Str(" "), NaN, Num(0)>>,
                   <<Str("x"), Str(""), Num(1)>> >>)
FillFile == [stem |-> "t1", readable |-> TRUE, df |-> FillFrame]
FillColumns == {Str("a"), Str("b"), Str("k")}
FillSources == {Str("a"), Str("b"), Str(""), NoValue}
FillValues == {Str("0"), Str(" "), NoValue}
FillNames == {None, "t1"}
FillCells == {<<"A", "1">>, <<"B", "2">>, <<"A", "5">>}
FillCellValues == {NaN, Str("")}

MoreFill == steps < MaxFillSteps /\ steps' = steps + 1

FillLoad == MoreFill /\ Load(FillFile, None)
FillSetCell ==
    MoreFill /\ \E cell_ref \in FillCells, value \in FillCellValues :
                   SetCell("t1", cell_ref, value)
FillFillNa ==
    MoreFill /\ \E target_column \in FillColumns, source_column \in FillSources,
                   value \in FillValues, name \in FillNames :
                   FillNa(target_column, source_column, value, name)

FillNext ==
    \/ FillLoad
    \/ FillSetCell
    \/ FillFillNa

SpecFill == Init /\ [][FillNext]_vars

(***************************************************************************)
(* SpecCalc: column_calculation on columns that hold numbers, text and a   *)
(* zero divisor.                                                           *)
(***************************************************************************)
CalcFrame == DF(<<Str("a"), Str("b")>>,
                << <<Num(10), Num(2)>>,
                   <<Str("x"), Num(2)>>,
                   <<Num(6), Num(0)>> >>)
CalcFile == [stem |-> "t1", readable |-> TRUE, df |-> CalcFrame]
CalcOperands == {Str("a"), Str("b")}
CalcTargets == {Str("a"), Str("b"), Str("c")}
CalcNames == {None, "t1"}

MoreCalc == steps < MaxCalcSteps /\ steps' = steps + 1

CalcLoad == MoreCalc /\ Load(CalcFile, None)
CalcColumnCalculation ==
    MoreCalc /\ \E operation \in Operations \cup {"power"}, column1, column2 \in CalcOperands,
                   target_column \in CalcTargets, name \in CalcNames :
                   ColumnCalculation(operation, column1, column2, target_column, name)

CalcNext ==
    \/ CalcLoad
    \/ CalcColumnCalculation

SpecCalc == Init /\ [][CalcNext]_vars

(***************************************************************************)
(* SpecEdit: one loaded table and nothing but cell edits, undo and redo.   *)
(***************************************************************************)
EditCells == {<<"A", "1">>, <<"B", "2">>}

MoreEdit == steps < MaxEditSteps /\ steps' = steps + 1

EditLoad == MoreEdit /\ "t1" \notin DOMAIN tables /\ Load(File1, "t1")
EditSetCell ==
    MoreEdit /\ \E cell_ref \in EditCells, value \in CellValues :
                   SetCell("t1", cell_ref, value)
EditUndo == MoreEdit /\ Undo("t1")
EditRedo == MoreEdit /\ Redo("t1")

EditNext ==
    \/ EditLoad
    \/ EditSetCell
    \/ EditUndo
    \/ EditRedo

SpecEdit == Init /\ [][EditNext]_vars

(***************************************************************************)
(* SpecStore: the operations that add, remove, select and restore tables:  *)
(* load, remove, setActive, group, merge, setHeaderRow, undo and redo.     *)
(***************************************************************************)
StoreNames == {"t1", "t2", "grouped_t1"}
StoreFiles == {File1, [stem |-> "t2", readable |-> TRUE, df |-> Frame2],
               [stem |-> "t2", readable |-> FALSE, df |-> NoFrame]}

MoreStore == steps < MaxStoreSteps /\ steps' = steps + 1

StoreLoad == MoreStore /\ \E file \in StoreFiles : Load(file, None)
StoreRemove == MoreStore /\ \E name \in StoreNames : Remove(name)
StoreSetActive == MoreStore /\ \E name \in StoreNames : SetActive(name)
StoreGroup == MoreStore /\ \E name \in {None, "t1"} : Group(Str("k"), "count", name)
StoreMerge == MoreStore /\ MergeTables(<<"t1", "t2">>, Str("k"), "inner")
StoreSetHeaderRow == MoreStore /\ \E name \in {"t1", "t2"} : SetHeaderRow(name, 0)
StoreUndo == MoreStore /\ \E name \in {None, "t1"} : Undo(name)
StoreRedo == MoreStore /\ \E name \in {None, "t1"} : Redo(name)

StoreNext ==
    \/ StoreLoad
    \/ StoreRemove
    \/ StoreSetActive
    \/ StoreGroup
    \/ StoreMerge
    \/ StoreSetHeaderRow
    \/ StoreUndo
    \/ StoreRedo

SpecStore == Init /\ [][StoreNext]_vars

(***************************************************************************)
(* SpecAgent: ExcelAgent.invoke on a store with one table.  The workflow   *)
(* of _build_workflow alternates the agent node, where the language model  *)
(* decides a tool call or gives its final answer, and the tools node,      *)
(* which executes the tool call against the store.  What the model         *)
(* decides is open; a message carries at most one tool call.               *)
(***************************************************************************)
ToolCalls == {[name |-> "column_calculation", column |-> Str("k")],
              [name |-> "sort_data", column |-> Str("k")]}

AgentVars == <<tables, order, table_metadata, active_table, history,
               last_saved_filename, clock, last, appended, cellop>>

\* the tool a tool call names, run on the store
RunTool(d, call) ==
    IF call.name = "column_calculation"
    THEN column_calculation(d, "add", call.column, call.column, call.column, None)
    ELSE sort_data(d, call.column, "desc", None)

\* the log entry a tool message completes: the first one of that name that
\* is still executing
Executing(log, name) ==
    {i \in 1..Len(log) : log[i].name = name /\ log[i].status = "executing"}
Completed(log, name, success) ==
    IF Executing(log, name) = {} THEN log
    ELSE LET i == CHOOSE i \in Executing(log, name) :
                     \A j \in Executing(log, name) : i <= j
         IN [log EXCEPT ![i].status = IF success THEN "completed" ELSE "failed"]

AgentLoad ==
    /\ agent.pc = "idle"
    /\ "t1" \notin DOMAIN tables
    /\ Load(File1, None)
    /\ UNCHANGED steps

\* invoke builds the initial messages and starts the first stream
Invoke ==
    /\ agent.pc \in {"idle", "done"}
    /\ steps < MaxInvokes
    /\ steps' = steps + 1
    /\ agent' = [NoInvoke EXCEPT !.pc = "agent", !.run = 1]
    /\ UNCHANGED AgentVars

\* the agent node answers with a tool call; the loop over the first stream
\* logs it as executing
AgentCallsTool ==
    /\ agent.pc = "agent"
    /\ agent.calls < MaxToolCalls
    /\ \E call \in ToolCalls :
          agent' = [agent EXCEPT
                       !.pc = "tools",
                       !.calls = @ + 1,
                       !.pending = call,
                       !.tool_calls =
                           IF agent.run = 1
                           THEN Append(@, [name |-> call.name, status |-> "executing"])
                           ELSE @]
    /\ UNCHANGED <<AgentVars, steps>>

\* the tools node executes the tool call; the loop over the first stream
\* completes its log entry
ToolsNode ==
    /\ agent.pc = "tools"
    /\ \E r \in RunTool(DM, agent.pending) :
          /\ Applied(r, agent.pending.name, active_table, r.ret.success, <<>>)
          /\ agent' = [agent EXCEPT
                          !.pc = "agent",
                          !.pending = NoToolCall,
                          !.executed = Append(@, [name |-> agent.pending.name,
                                                  run |-> agent.run]),
                          !.tool_calls =
                              IF agent.run = 1
                              THEN Completed(@, agent.pending.name, r.ret.success)
                              ELSE @]
    /\ UNCHANGED steps

\* the agent node answers without a tool call: the stream ends
AgentAnswers ==
    /\ agent.pc = "agent"
    /\ agent' = [agent EXCEPT !.pc = "end"]
    /\ UNCHANGED <<AgentVars, steps>>

\* after the first stream, invoke streams the workflow again from the
\* initial messages (stream_mode="values") to obtain the final state
StreamAgain ==
    /\ agent.pc = "end"
    /\ agent.run = 1
    /\ agent' = [agent EXCEPT !.pc = "agent", !.run = 2, !.calls = 0]
    /\ UNCHANGED <<AgentVars, steps>>

\* invoke returns the last message of the second stream and the log
Return ==
    /\ agent.pc = "end"
    /\ agent.run = 2
    /\ agent' = [agent EXCEPT !.pc = "done", !.response_run = agent.run]
    /\ UNCHANGED <<AgentVars, steps>>

AgentNext ==
    \/ AgentLoad
    \/ Invoke
    \/ AgentCallsTool
    \/ ToolsNode
    \/ AgentAnswers
    \/ StreamAgain
    \/ Return

SpecAgent == Init /\ [][AgentNext]_vars

(***************************************************************************)
(* Properties of undo and redo (SpecUndo, SpecCap).                        *)
(***************************************************************************)
\* the frames a stack holds, bottom first
StackData(stack) == [i \in 1..Len(stack) |-> stack[i].data]

RedoInvalidated(d, name) ==
    /\ ~can_redo(d, name)
    /\ redo(d, name) = Result(d, FALSE)

C3_SnapshotCap ==
    \A name \in DOMAIN history.snapshot_cache :
        Len(history.snapshot_cache[name]) <= SnapshotCap

RECURSIVE UndoTimes(_, _, _)
\* count consecutive undo calls: the final object, and whether all succeeded
UndoTimes(d, name, count) ==
    IF count = 0 THEN [d |-> d, ok |-> TRUE]
    ELSE LET u == undo(d, name)
             rest == UndoTimes(u.d, name, count - 1)
         IN [d |-> rest.d, ok |-> u.ret /\ rest.ok]

\* C4: with N >= 2 retained snapshots, N-1 consecutive undo calls all
\* succeed and leave the table equal to the oldest retained snapshot; then
\* can_undo is false and a further undo returns false and changes nothing.
C4_UndoToOldest ==
    \A name \in DOMAIN history.snapshot_cache :
        LET N == Len(UndoStack(DM, name))
        IN N >= 2 =>
            LET r == UndoTimes(DM, name, N - 1)
                further == undo(r.d, name)
            IN /\ r.ok
               /\ r.d.tables[name] = UndoStack(DM, name)[1].data
               /\ ~can_undo(r.d, name)
               /\ ~further.ret
               /\ further.d = r.d

\* an undo refused right after the undo that reached the oldest snapshot
C4_Witness ==
    /\ last.op = "undo" /\ ~last.ok /\ last.after_undo
    /\ Len(UndoStack(DM, last.table)) = 1
    /\ Len(RedoStack(DM, last.table)) >= 2
    /\ tables[last.table] = UndoStack(DM, last.table)[1].data
    /\ RedoStack(DM, last.table)[1].data # tables[last.table]

(***************************************************************************)
(* Properties of a fresh store and of the log.                             *)
(***************************************************************************)
\* C5 as stated: right after a successful load into a fresh store,
\* can_undo(name) is true and can_redo(name) is false.
C5_CanUndoAfterLoad ==
    (steps = 1 /\ last.op = "load" /\ last.ok) =>
        can_undo(DM, last.table) /\ ~can_redo(DM, last.table)

LastN(s, count) == SubSeq(s, Len(s) - count + 1, Len(s))

\* C6: the log holds at most limit records, and they are the most recently
\* appended ones in append order.
C6_HistoryCap ==
    /\ Len(history.history) <= history.limit
    /\ history.history = LastN(appended, Min(history.limit, Len(appended)))

\* more records were appended than the limit allows
C6_Witness ==
    /\ Len(appended) > history.limit + 1
    /\ Len(history.history) = history.limit
    /\ last.op \in {"add_operation", "load"}

(***************************************************************************)
(* Properties of cell writes, the tools, the metadata and remove.          *)
(***************************************************************************)
MetadataInSync(d, name) ==
    /\ name \in DOMAIN d.table_metadata
    /\ d.table_metadata[name].columns = d.tables[name].columns
    /\ d.table_metadata[name].total_rows = NRows(d.tables[name])

\* set_cell_value succeeded on cell_ref: the value is there, the metadata fresh
CellWritten(r, name, cell_ref, value) ==
    LET cell == parse_cell_reference(cell_ref)
    IN /\ r.d.tables[name].rows[cell.row + 1][cell.col + 1] = value
       /\ MetadataInSync(r.d, name)

MutatingToolResults ==
    UNION {
        UNION {sort_data(DM, column, sort_order, name) :
                 column \in ColumnArgs, sort_order \in {"asc", "desc"}, name \in OptNames},
        UNION {fill_na(DM, target_column, source_column, value, name) :
                 target_column \in ColumnArgs, source_column \in {Str("k"), NoValue},
                 value \in {Str("0"), NoValue}, name \in OptNames},
        UNION {copy_column(DM, target_column, source_column, name) :
                 target_column \in ColumnArgs, source_column \in ColumnArgs,
                 name \in OptNames},
        UNION {column_calculation(DM, operation, column1, column2, target_column, name) :
                 operation \in {"add", "divide"}, column1 \in {Str("k"), Str("a")},
                 column2 \in {Str("k"), Str("a")}, target_column \in {Str("a"), Str("c")},
                 name \in OptNames},
        UNION {insert_data(DM, target_table, target_column, target_cell, Str("x")) :
                 target_table \in Names, target_column \in {Str("c"), NoValue},
                 target_cell \in InsertCells},
        UNION {update_data(DM, target_table, source_table, key, update_column) :
                 target_table \in Names, source_table \in Names, key \in UpdateKeys,
                 update_column \in UpdateColumns}
    }

AllStackData(dict) == [name \in DOMAIN dict |-> StackData(dict[name])]

\* C8 as stated: sort, fill_na, copy_column, column_calculation, insert and
\* update leave every table's undo stack and redo stack unchanged.
C8_ToolsKeepStacks ==
    \A r \in MutatingToolResults :
        /\ AllStackData(r.d.history.snapshot_cache) = AllStackData(history.snapshot_cache)
        /\ AllStackData(r.d.history.redo_stack) = AllStackData(history.redo_stack)

\* C9 as stated: after every operation, each table's metadata has the
\* table's column list and row count.
C9_MetadataInSync ==
    \A name \in DOMAIN tables : MetadataInSync(DM, name)

\* C10: remove of a known table deletes the table and its metadata and
\* returns true; the active table, if it was the removed one, becomes a
\* remaining table, or none when none remains, and is unchanged otherwise;
\* remove of an unknown name returns false and changes nothing.
C10_Remove ==
    \A name \in Names :
        LET r == remove_table(DM, name)
        IN IF name \in DOMAIN tables
           THEN /\ r.ret
                /\ DOMAIN r.d.tables = DOMAIN tables \ {name}
                /\ name \notin DOMAIN r.d.table_metadata
                /\ \A other \in DOMAIN r.d.tables : r.d.tables[other] = tables[other]
                /\ IF active_table = name
                   THEN IF DOMAIN r.d.tables = {} THEN r.d.active_table = None
                        ELSE r.d.active_table \in DOMAIN r.d.tables
                   ELSE r.d.active_table = active_table
           ELSE ~r.ret /\ r.d = DM

\* the active table t1 was removed and t2 took its place
C10_Witness ==
    /\ last.op = "remove" /\ last.ok /\ last.table = "t1"
    /\ steps = 3
    /\ history.history[1].table_name = "t1"
    /\ DOMAIN tables = {"t2"}
    /\ active_table = "t2"
    /\ DOMAIN table_metadata = {"t2"}

(***************************************************************************)
(* Properties of the active table (SpecActive).                            *)
(***************************************************************************)
\* C11 as stated: set_active_table(name) returns true and makes name the
\* active table exactly when name is a table of the store; otherwise it
\* returns false and changes nothing.
C11_SetActiveIffKnown ==
    \A name \in ActiveArgs :
        LET r == set_active_table(DM, name)
        IN IF name \in DOMAIN tables
           THEN r.ret /\ r.d = [DM EXCEPT !.active_table = name]
           ELSE ~r.ret /\ r.d = DM

\* C11 amended: set_active_table(name) returns true and makes name the
\* active table, changing nothing else, exactly when name is a non-empty
\* name of a table of the store; otherwise (the empty name included, even
\* when a table is stored under it) it returns false and changes nothing.
C11_SetActiveIffKnownNonEmpty ==
    \A name \in ActiveArgs :
        LET r == set_active_table(DM, name)
        IN IF name \in DOMAIN tables /\ name # ""
           THEN r.ret /\ r.d = [DM EXCEPT !.active_table = name]
           ELSE ~r.ret /\ r.d = DM

\* set_active_table refused the empty name of a stored table while
\* another stored table was active
C11_Witness ==
    /\ last.op = "set_active" /\ ~last.ok /\ last.table = ""
    /\ "" \in DOMAIN tables
    /\ active_table \in DOMAIN tables \ {""}

\* C12: a successful load stores the frame under its name (the file's stem
\* when no name is given) and makes that table active only when no table
\* is active; otherwise the active table is unchanged.
C12_LoadActivatesFirst ==
    \A file \in ActiveFiles, name \in ActiveNames \cup {None} :
        LET r == load_table(DM, file, name, Now)
            table == IF name = None THEN file.stem ELSE name
        IN r.ret =>
            /\ table \in DOMAIN r.d.tables
            /\ r.d.tables[table] = file.df
            /\ r.d.active_table = IF active_table = None THEN table ELSE active_table

\* a later load added a second table and left the active table alone
C12_Witness ==
    /\ last.op = "load" /\ last.ok
    /\ Len(appended) >= 2
    /\ {active_table, last.table} \subseteq DOMAIN tables
    /\ active_table # last.table
    /\ order[Len(order)] = last.table

(***************************************************************************)
(* Properties of set_header_row (SpecHeader).                              *)
(***************************************************************************)
\* the cells of a row are pairwise distinct
Distinct(row) == \A i, j \in 1..Len(row) : i # j => row[i] # row[j]
\* a header row that needs no placeholder
PlainHeader(row) == Distinct(row) /\ \A i \in 1..Len(row) : ~IsNa(row[i]) /\ row[i] # Str("")

\* C13 as stated: on a table with at least one row (and a plain row 0),
\* set_header_row(table, 0) succeeds, the columns become the values of row 0
\* and the data rows are the rows after row 0.
C13_HeaderPromotion ==
    \A name \in DOMAIN tables :
        LET df == tables[name]
            r == set_header_row(DM, name, 0, Now)
        IN (NRows(df) >= 1 /\ PlainHeader(df.rows[1])) =>
            /\ r.ret.success
            /\ r.d.tables[name].columns = df.rows[1]
            /\ r.d.tables[name].rows = Tail(df.rows)

\* C14 as stated: after a successful set_header_row the column names are
\* pairwise distinct.
C14_DistinctColumns ==
    \A name \in DOMAIN tables, header_row \in HeaderRows :
        LET r == set_header_row(DM, name, header_row, Now)
        IN r.ret.success => Distinct(r.d.tables[name].columns)

(***************************************************************************)
(* Properties of range writes (SpecRange).                                 *)
(***************************************************************************)
\* C15 as stated: set_range_values with a block whose row or column count
\* differs from the extent of a valid range returns false and leaves the
\* store unchanged.
C15_ShapeMismatchRefused ==
    \A name \in DOMAIN tables, range_ref \in RangeRefs, values \in Blocks :
        LET range == parse_range(range_ref)
            df == tables[name]
        IN (/\ range.ok
            /\ validate_range(range.start_row, range.start_col, range.end_row,
                              range.end_col, NRows(df), NCols(df))
            /\ \/ Len(values) # range.end_row - range.start_row + 1
               \/ Len(values[1]) # range.end_col - range.start_col + 1)
           => \A r \in set_range_values(DM, name, range_ref, values) :
                  ~r.ret /\ r.d = DM

(***************************************************************************)
(* Properties of the cell and range references (SpecRef).                  *)
(***************************************************************************)
\* C16 as stated: for every text s parse_cell_reference accepts,
\* cell_to_excel of the parsed cell is s.
C16_TextRoundTrip ==
    cellop.fn = "cell_to_excel_of_parsed" => cellop.text = cellop.of_text

\* uppercase letters followed by a number without a superfluous leading zero
CanonicalRef(s) ==
    \E k \in 1..(Len(s) - 1) :
        /\ \A i \in 1..k : s[i] \in {Alphabet[n] : n \in 1..26}
        /\ \A i \in (k + 1)..Len(s) : s[i] \in {DigitChars[n] : n \in 1..10}
        /\ s[k + 1] # "0" \/ Len(s) = k + 1

\* C16 amended: for every text s made of uppercase letters followed by a
\* decimal number without a superfluous leading zero, parse_cell_reference
\* accepts s and cell_to_excel of the parsed cell is s.
C16_CanonicalTextRoundTrip ==
    /\ (cellop.fn = "parse_cell_reference" /\ CanonicalRef(cellop.text))
          => cellop.cell.ok
    /\ (cellop.fn = "cell_to_excel_of_parsed" /\ CanonicalRef(cellop.of_text))
          => cellop.text = cellop.of_text

\* BA2 was parsed to (1, 52) and written back as BA2
C16_Witness ==
    /\ cellop.fn = "cell_to_excel_of_parsed"
    /\ cellop.of_text = <<"B", "A", "2">>
    /\ cellop.cell = [ok |-> TRUE, row |-> 1, col |-> 52]
    /\ cellop.text = <<"B", "A", "2">>

\* C17: parse_cell_reference(cell_to_excel(row, col)) = (row, col) for
\* row, col >= 0, and the columns are named 0 -> A, 25 -> Z, 26 -> AA,
\* 51 -> AZ, 52 -> BA.
C17_IndexRoundTrip ==
    /\ cellop.fn = "parse_of_formatted" =>
          /\ cellop.cell.ok
          /\ cellop.cell.row = cellop.of_cell.row
          /\ cellop.cell.col = cellop.of_cell.col
    /\ cell_to_excel(0, 0) = <<"A", "1">>
    /\ cell_to_excel(0, 25) = <<"Z", "1">>
    /\ cell_to_excel(0, 26) = <<"A", "A", "1">>
    /\ cell_to_excel(0, 51) = <<"A", "Z", "1">>
    /\ cell_to_excel(0, 52) = <<"B", "A", "1">>
    /\ cell_to_excel(4, 27) = <<"A", "B", "5">>

\* (9, 702) was written as AAA10 and parsed back
C17_Witness ==
    /\ cellop.fn = "parse_of_formatted"
    /\ cellop.of_cell = [ok |-> TRUE, row |-> 9, col |-> 702]
    /\ cellop.text = <<"A", "A", "A", "1", "0">>
    /\ cellop.cell = cellop.of_cell

\* C18 as stated: every range parse_range returns has start_row <= end_row
\* and start_col <= end_col.
C18_ParsedRangeIsRectangle ==
    (cellop.fn = "parse_range" /\ cellop.range.ok) =>
        /\ cellop.range.start_row <= cellop.range.end_row
        /\ cellop.range.start_col <= cellop.range.end_col

(***************************************************************************)
(* Not-found handling of the catalog (SpecCatalog).                        *)
(***************************************************************************)
LookupNames == {None, "t1", "t2", "zz"}

\* a tool that defaults to the active table finds no table under name
NotFound(name) ==
    IF name = None THEN active_table = None ELSE name \notin DOMAIN tables

\* every outcome is a structured failure that leaves the store as it was
Refused(results) == \A r \in results : ~r.ret.success /\ r.d = DM

\* C19: each of the thirteen catalog operations, called with a table name
\* that is not in the store, or without a name while no table is active,
\* returns success = false and leaves tables, metadata, active table,
\* undo/redo stacks and operation log unchanged.
C19_NotFoundRefused ==
    /\ \A name \in LookupNames : NotFound(name) =>
          /\ \A operation \in CalcOperations, column \in CatalogColumns :
                Refused(calculate(DM, operation, column, name))
          /\ \A condition \in CatalogConditions : Refused(filter_data(DM, condition, name))
          /\ \A column \in CatalogColumns, sort_order \in {"asc", "desc"} :
                Refused(sort_data(DM, column, sort_order, name))
          /\ \A column \in CatalogColumns, agg_func \in GroupAggs :
                Refused(group_data(DM, column, agg_func, name))
          /\ \A source_column \in {Str("k"), NoValue}, value \in {Str("0"), NoValue} :
                Refused(fill_na(DM, Str("a"), source_column, value, name))
          /\ \A target_column \in CatalogColumns :
                Refused(copy_column(DM, target_column, Str("k"), name))
          /\ \A operation \in Operations :
                Refused(column_calculation(DM, operation, Str("k"), Str("k"), Str("a"), name))
          /\ \A preview_rows \in 0..2 : Refused(tool_detect_header(DM, name, preview_rows))
          /\ \A header_row \in HeaderRows :
                Refused(tool_set_header_row(DM, name, header_row, Now))
    /\ \A name \in LookupNames : name \notin DOMAIN tables =>
          /\ \A target_column \in {Str("c"), NoValue}, target_cell \in InsertCells :
                Refused(insert_data(DM, name, target_column, target_cell, Str("x")))
          /\ \A other \in LookupNames, key \in UpdateKeys, update_column \in UpdateColumns :
                /\ Refused(update_data(DM, name, other, key, update_column))
                /\ Refused(update_data(DM, other, name, key, update_column))
          /\ \A other \in LookupNames, how \in MergeHows :
                /\ Refused(merge_tables(DM, <<name, other>>, Str("k"), how))
                /\ Refused(merge_tables(DM, <<other, name>>, Str("k"), how))
                /\ Refused(merge_tables(DM, <<name>>, Str("k"), how))
          /\ \A out \in Outputs : Refused(tool_save_table(DM, name, out, Now))

\* a lookup by name has just failed in a store that holds a table with a
\* snapshot and a logged operation
C19_Witness ==
    /\ last.op \in {"group", "save"} /\ ~last.ok
    /\ last.table = "t2" /\ "t2" \notin DOMAIN tables
    /\ "t1" \in DOMAIN tables
    /\ Len(UndoStack(DM, "t1")) > 0
    /\ Len(appended) > 0

(***************************************************************************)
(* fill_na (SpecFill).                                                     *)
(***************************************************************************)
\* the cells fill_na looks for: missing ones when it fills from a column,
\* missing or blank ones when it fills with a literal
FillTarget(source_column, v) == IF Truthy(source_column) THEN IsNa(v) ELSE IsBlank(v)

\* C20: a successful fill_na changes only the cells of the target column
\* that were missing (blank, for a literal) before the call, every other
\* cell, column and table keeps its value, and filled_count is the number
\* of those cells that are no longer missing (blank) afterwards.
C20_FillOnlyMissing ==
    \A target_column \in FillColumns, source_column \in FillSources,
       value \in FillValues, name \in FillNames :
        \A r \in fill_na(DM, target_column, source_column, value, name) :
            r.ret.success =>
                LET table == Resolve(DM, name)
                    before == tables[table]
                    after == r.d.tables[table]
                    t == ColIndex(before, target_column)
                IN /\ after.columns = before.columns
                   /\ NRows(after) = NRows(before)
                   /\ \A i \in 1..NRows(before), j \in 1..NCols(before) :
                         (j # t \/ ~FillTarget(source_column, before.rows[i][j]))
                            => after.rows[i][j] = before.rows[i][j]
                   /\ r.ret.filled_count =
                         Cardinality({i \in 1..NRows(before) :
                                         /\ FillTarget(source_column, before.rows[i][t])
                                         /\ ~FillTarget(source_column, after.rows[i][t])})
                   /\ \A other \in DOMAIN tables \ {table} :
                         r.d.tables[other] = tables[other]

\* column a was just filled from column b: the cell whose source is
\* missing is still missing, the next one holds the source's value, the
\* blank text and the other columns are as loaded
C20_Witness ==
    /\ last.op = "fill_na" /\ last.ok
    /\ "t1" \in DOMAIN tables
    /\ Column(tables["t1"], Str("a")) = <<NaN, Str("x"), Str(""), Str(" "), Str("x")>>
    /\ Column(tables["t1"], Str("b")) = Column(FillFrame, Str("b"))
    /\ Column(tables["t1"], Str("k")) = Column(FillFrame, Str("k"))

(***************************************************************************)
(* column_calculation (SpecCalc).                                          *)
(***************************************************************************)
\* C21: column_calculation succeeds on bad data, and in every row the
\* target cell is missing when an operand is not numeric or when the
\* operation is divide and the divisor is zero, and holds the arithmetic
\* result otherwise.
C21_BadDataBecomesMissing ==
    \A operation \in Operations, column1, column2 \in CalcOperands,
       target_column \in CalcTargets, name \in CalcNames :
        Resolve(DM, name) \in DOMAIN tables =>
            \A r \in column_calculation(DM, operation, column1, column2, target_column, name) :
                LET table == Resolve(DM, name)
                    before == tables[table]
                    after == r.d.tables[table]
                IN /\ r.ret.success
                   /\ \A i \in 1..NRows(before) :
                         LET x == ToNumeric(Column(before, column1)[i])
                             y == ToNumeric(Column(before, column2)[i])
                             cell == Column(after, target_column)[i]
                         IN IF IsNa(x) \/ IsNa(y) \/ (operation = "divide" /\ y = Num(0))
                            THEN IsNa(cell)
                            ELSE cell = Arith(operation, x, y)

(***************************************************************************)
(* The filter-then-count chain of the catalog (SpecCatalog).               *)
(***************************************************************************)
\* C22: filter(condition) leaves the stored table unchanged, and a
\* calculate(count, column) that follows it without naming a table counts
\* the cells of the column in the rows the filter selected, not in the
\* whole stored table.
C22_FilterThenCount ==
    \A condition \in CatalogConditions, column \in CatalogColumns :
        \A f \in filter_data(DM, condition, None) :
            (f.ret.success /\ HasColumn(tables[active_table], column)) =>
                /\ f.d.tables = tables
                /\ \A c \in calculate(f.d, "count", column, None) :
                      /\ c.ret.success
                      /\ c.ret.result =
                            Num(Len(Present(
                                [i \in 1..f.ret.rows |->
                                    Query(tables[active_table], condition)[i]
                                        [ColIndex(tables[active_table], column)]])))

(***************************************************************************)
(* Undo of a cell edit (SpecEdit).                                         *)
(***************************************************************************)
\* C23: after any sequence of setCell, undo and redo on a loaded table, a
\* setCell(cell, v) followed by a successful undo leaves the table equal to
\* its state just before that setCell.
C23_UndoRevertsLastEdit ==
    \A cell_ref \in EditCells, value \in CellValues :
        LET edited == set_cell_value(DM, "t1", cell_ref, value)
            undone == undo(edited.d, "t1")
        IN (edited.ret /\ undone.ret) => undone.d.tables["t1"] = tables["t1"]

(***************************************************************************)
(* Snapshot isolation (SpecUndo).                                          *)
(***************************************************************************)
\* the frames held by a stack of snapshots
Frames(stack) == [i \in 1..Len(stack) |-> stack[i].data]

\* C24: an in-place write to the live table (setCell, insert) changes no
\* snapshot that is on the undo or redo stack: the redo stack holds the
\* frames it held, and so does the undo stack below a snapshot the write
\* itself pushed.
C24_SnapshotIsolation ==
    [][(last'.op \in {"set_cell", "insert"} /\ Len(UndoStack(DM, "t1")) < SnapshotCap) =>
          /\ Frames(StackOf(history'.redo_stack, "t1")) = Frames(RedoStack(DM, "t1"))
          /\ Len(StackOf(history'.snapshot_cache, "t1")) >= Len(UndoStack(DM, "t1"))
          /\ SubSeq(Frames(StackOf(history'.snapshot_cache, "t1")),
                    1, Len(UndoStack(DM, "t1")))
                = Frames(UndoStack(DM, "t1"))]_vars

(***************************************************************************)
(* Removal (SpecUndo).                                                     *)
(***************************************************************************)
\* C25: right after remove(name) returned true, name is absent from the
\* store, undo(name) and redo(name) return false, and a table loaded under
\* that name starts with an undo stack that holds only its load snapshot.
C25_RemovedStaysRemoved ==
    (last.op = "remove" /\ last.ok) =>
        /\ last.table \notin DOMAIN tables
        /\ ~undo(DM, last.table).ret
        /\ ~redo(DM, last.table).ret
        /\ Frames(UndoStack(load_table(DM, File1, last.table, Now).d, last.table))
              = <<File1.df>>

(***************************************************************************)
(* Independence of the tables (Spec).                                      *)
(***************************************************************************)
\* table B of d has the data and the undo and redo frames it has now
SameFor(d, B) ==
    /\ (B \in DOMAIN d.tables) = (B \in DOMAIN tables)
    /\ B \in DOMAIN tables => d.tables[B] = tables[B]
    /\ Frames(UndoStack(d, B)) = Frames(UndoStack(DM, B))
    /\ Frames(RedoStack(d, B)) = Frames(RedoStack(DM, B))

\* C26: load, save, setHeaderRow, setCell, snapshot, undo, redo and a
\* logged operation record for table A leave the data, the undo stack and
\* the redo stack of every other table B unchanged.
C26_TablesIndependent ==
    \A A, B \in Names : A # B =>
        /\ \A file \in Files : SameFor(load_table(DM, file, A, Now).d, B)
        /\ \A out \in Outputs : SameFor(save_table(DM, A, out, Now).d, B)
        /\ \A header_row \in HeaderRows :
              SameFor(set_header_row(DM, A, header_row, Now).d, B)
        /\ \A cell_ref \in CellRefs, value \in CellValues :
              SameFor(set_cell_value(DM, A, cell_ref, value).d, B)
        /\ SameFor(save_snapshot(DM, A), B)
        /\ SameFor(undo(DM, A).d, B)
        /\ SameFor(redo(DM, A).d, B)
        /\ SameFor(add_operation_to_history(DM, A, Now).d, B)

(***************************************************************************)
(* Failure atomicity of the catalog (SpecCatalog).                         *)
(***************************************************************************)
\* every failed outcome leaves all stored tables as they are
Atomic(results) == \A r \in results : ~r.ret.success => r.d.tables = tables

\* C27: whenever a catalog operation returns success = false, every stored
\* table has the columns and cell values it had before the call.
C27_FailureAtomicity ==
    /\ \A name \in LookupNames :
          /\ \A operation \in CalcOperations \cup {"mode"}, column \in ColumnArgs :
                Atomic(calculate(DM, operation, column, name))
          /\ \A condition \in CatalogConditions : Atomic(filter_data(DM, condition, name))
          /\ \A column \in ColumnArgs, sort_order \in {"asc", "desc"} :
                Atomic(sort_data(DM, column, sort_order, name))
          /\ \A column \in ColumnArgs, agg_func \in GroupAggs \cup {"mode"} :
                Atomic(group_data(DM, column, agg_func, name))
          /\ \A target_column \in ColumnArgs, source_column \in {Str("k"), Str("c"), NoValue},
                value \in {Str("0"), NoValue} :
                Atomic(fill_na(DM, target_column, source_column, value, name))
          /\ \A target_column, source_column \in ColumnArgs :
                Atomic(copy_column(DM, target_column, source_column, name))
          /\ \A operation \in Operations \cup {"power"}, column1, column2 \in ColumnArgs :
                Atomic(column_calculation(DM, operation, column1, column2, Str("c"), name))
          /\ \A preview_rows \in 0..2 : Atomic(tool_detect_header(DM, name, preview_rows))
          /\ \A header_row \in HeaderRows \cup {5} :
                Atomic(tool_set_header_row(DM, name, header_row, Now))
          /\ \A target_column \in {Str("c"), NoValue}, target_cell \in InsertCells :
                Atomic(insert_data(DM, name, target_column, target_cell, Str("x")))
          /\ \A out \in Outputs : Atomic(tool_save_table(DM, name, out, Now))
    /\ \A names \in CatalogMerges, key \in ColumnArgs, how \in MergeHows \cup {"cross"} :
          Atomic(merge_tables(DM, names, key, how))
    /\ \A target_table, source_table \in Names, key \in UpdateKeys,
          update_column \in UpdateColumns :
          target_table # source_table =>
              Atomic(update_data(DM, target_table, source_table, key, update_column))

(***************************************************************************)
(* Bounds of cell writes (Spec).                                           *)
(***************************************************************************)
\* C28: insert with a target cell whose parsed position lies outside the
\* table returns success = false and leaves the table unchanged, as
\* setCell returns false for the same reference.
C28_InsertBoundsChecked ==
    \A name \in DOMAIN tables, target_cell \in InsertCells \ {<<>>} :
        LET cell == parse_cell_reference(target_cell)
            df == tables[name]
        IN (cell.ok /\ ~validate_cell_position(cell.row, cell.col, NRows(df), NCols(df))) =>
              /\ ~set_cell_value(DM, name, target_cell, Str("x")).ret
              /\ \A r \in insert_data(DM, name, NoValue, target_cell, Str("x")) :
                    ~r.ret.success /\ r.d.tables = tables

(***************************************************************************)
(* The active table and the metadata (SpecStore).                          *)
(***************************************************************************)
\* C29: in every state reached by load, remove, setActive, group, merge,
\* setHeaderRow, undo and redo, the active table is none or a table of the
\* store, and the tables are exactly the names that have metadata.
C29_ActiveAndMetadata ==
    /\ active_table = None \/ active_table \in DOMAIN tables
    /\ DOMAIN table_metadata = DOMAIN tables

\* the active table t1 was removed while the result of a group was in the
\* store, and that result became the active table
C29_Witness ==
    /\ last.op = "remove" /\ last.ok /\ last.table = "t1"
    /\ active_table = "grouped_t1"
    /\ DOMAIN tables = {"grouped_t1"}

(***************************************************************************)
(* One run per query (SpecAgent).                                          *)
(***************************************************************************)
\* C30: when invoke returns, the workflow has run once from the initial
\* messages, the tool calls executed against the store are the logged
\* ones, each once, and the response comes from the run that was logged.
C30_SingleRun ==
    agent.pc = "done" =>
        /\ agent.run = 1
        /\ agent.response_run = 1
        /\ Len(agent.executed) = Len(agent.tool_calls)
        /\ \A i \in 1..Len(agent.tool_calls) :
              agent.executed[i].name = agent.tool_calls[i].name

====
